---- MODULE Spec2Model ----
(***************************************************************************)
(* State-diff transaction decoder: StateDiffAnalyzer.analyze,              *)
(* EventAggregator.aggregate with its enricher pipeline (one call, and     *)
(* several calls interleaved on one aggregator), JupiterEnricher.enrich,   *)
(* amountsMatch and the /decode handler.                                   *)
(*                                                                         *)
(* Conventions of the model                                                *)
(*  - a decimal string ("1000000") is the sequence of its digits;          *)
(*    BigInt parses it and NatToString prints the canonical form;          *)
(*  - a nullable value is a sequence of length 0 (null/undefined) or 1;    *)
(*  - the account fields of an event (account, tokenAccount, swapper,      *)
(*    sender, receiver) are nullable strings, since an account key read    *)
(*    past the end of accountKeys is undefined; undefined is falsy, equal  *)
(*    to itself under includes and as a Map key, and printed "undefined"   *)
(*    in a template string;                                                *)
(*  - a call that can throw has the outcome Returned(value) or Thrown(e);  *)
(*  - a JSON value of unknown type (meta.err) is a record [t, v] holding   *)
(*    its JSON type and its text;                                          *)
(*  - confidence scores are kept in hundredths (70 is 0.7).  The IEEE sums *)
(*    of the source lie on the same side of the thresholds as the exact    *)
(*    sums (0.5+0.2 is exactly the double 0.7, 0.6+0.3 is 0.8999...9).     *)
(***************************************************************************)
EXTENDS Integers, Sequences, FiniteSets, TLC

VARIABLES
  config,        \* config of the object called: EventAggregator.config or StateDiffAnalyzer.config
  enrichers,     \* EventAggregator.enrichers: the configured plugin list
  env,           \* process environment and JupiterEnricher construction outcome
  atomicEvents,  \* argument atomicEvents of the call under way
  tx,            \* argument tx of the call under way
  pc,            \* position of the call under way
  event,         \* local variable `event` of aggregate / argument of enrich
  idx,           \* number of enrichers already resolved in the for-of loop
  inflight,      \* index of the enricher whose promise is awaited, 0 if none
  calls,         \* history: one record per enricher invocation, in order
  result,        \* value the promise resolved to, when pc = "returned"
  args,          \* arguments of the function called (amountsMatch), or the /decode request
  ret            \* its return value (amountsMatch, analyze), or the responses sent

vars == <<config, enrichers, env, atomicEvents, tx, pc, event, idx, inflight,
          calls, result, args, ret>>

----------------------------------------------------------------------------
(* Bounds *)

MaxEvents == 2
MaxPipeEvents == 3
MaxEnrichers == 2
MaxInstructions == 2
MaxDiff == 12
MaxAccounts == 3
MaxTokenBalances == 2
MaxTraceEvents == 4

----------------------------------------------------------------------------
(* Program constants *)

NativeDecimals == 9
ToleranceScale == 100000
SwapThreshold == 70
TransferThreshold == 80
FallbackAccountKeys == 10

JUPITER_PROGRAM_ID == "JUP6LkbZbjS1jKKwapdHNy74zcZ3tLUZoi5QNyVTaV4"

----------------------------------------------------------------------------
(* Values *)

None == <<>>
Some(v) == <<v>>
IsNone(o) == Len(o) = 0

RECURSIVE NatToString(_)
\* Number.prototype.toString / BigInt.prototype.toString of a non-negative integer
NatToString(n) ==
  IF n < 10 THEN <<n>> ELSE Append(NatToString(n \div 10), n % 10)

RECURSIVE BigInt(_)
\* BigInt(string) of a string of decimal digits (leading zeros allowed)
BigInt(s) ==
  IF Len(s) = 0 THEN 0
  ELSE 10 * BigInt(SubSeq(s, 1, Len(s) - 1)) + s[Len(s)]

\* JavaScript truthiness of a JSON value
Truthy(j) ==
  CASE j.t = "null" -> FALSE
    [] j.t = "string" -> j.v # ""
    [] j.t = "number" -> j.v # "0"
    [] j.t = "boolean" -> j.v = "true"
    [] OTHER -> TRUE

JsonNull == [t |-> "null", v |-> "null"]

\* JavaScript truthiness of a nullable string
TruthyString(s) == ~IsNone(s) /\ s[1] # ""

\* `${v}` of a nullable string
TemplateString(v) == IF IsNone(v) THEN "undefined" ELSE v[1]

\* outcome of a call that can throw: the value returned, or the error thrown
Returned(v) == [ok |-> TRUE, value |-> v]
Thrown(e) == [ok |-> FALSE, error |-> e]

\* parseInt(s, 10) of a string of decimal digits: the number, or NaN (None)
\* for the empty string.  The source holds the number as a double, which is
\* exact below 2^53
parseInt(s) == IF Len(s) = 0 THEN None ELSE Some(BigInt(s))

\* accountKeys[index] of the transaction: Some(key), or None (undefined) past
\* the keys
AccountKeyAt(t, index) ==
  IF index >= 0 /\ index < Len(t.message.accountKeys)
  THEN Some(t.message.accountKeys[index + 1]) ELSE None

Min(a, b) == IF a < b THEN a ELSE b

----------------------------------------------------------------------------
(* EventAggregator: token movements *)

IsSpl(e) == e.type = "DEBIT_SPL" \/ e.type = "CREDIT_SPL"
IsSol(e) == e.type = "DEBIT_SOL" \/ e.type = "CREDIT_SOL"

\* one TokenMovement of extractTokenMovements
Movement(e) ==
  IF IsSpl(e)
  THEN [account |-> e.account, mint |-> e.mint, amount |-> e.amount,
        decimals |-> e.decimals,
        direction |-> IF e.type = "DEBIT_SPL" THEN "OUT" ELSE "IN",
        atomicEvent |-> e]
  ELSE [account |-> e.account, mint |-> "SOL", amount |-> e.amount,
        decimals |-> NativeDecimals,
        direction |-> IF e.type = "DEBIT_SOL" THEN "OUT" ELSE "IN",
        atomicEvent |-> e]

\* every atomic event type is one of the four, so every event yields a movement
extractTokenMovements(events) == [i \in 1..Len(events) |-> Movement(events[i])]

\* Math.floor(amountTolerance * 100000) in IEEE double arithmetic.  The
\* configured ratio is named by its decimal literal; the table holds the value
\* the double product floors to (0.0003 * 100000 is 29.999999999999996).
FloorScaledTolerance(ratio) ==
  CASE ratio = "0.001" -> 100
    [] ratio = "0.01" -> 1000
    [] ratio = "0.0003" -> 29
    [] ratio = "0.000005" -> 0
    [] ratio = "0" -> 0

\* the configured ratio as an exact fraction RatioNum / RatioDen
RatioNum(ratio) ==
  CASE ratio = "0.001" -> 1
    [] ratio = "0.01" -> 1
    [] ratio = "0.0003" -> 3
    [] ratio = "0.000005" -> 1
    [] ratio = "0" -> 0

RatioDen(ratio) ==
  CASE ratio = "0.001" -> 1000
    [] ratio = "0.01" -> 100
    [] ratio = "0.0003" -> 10000
    [] ratio = "0.000005" -> 200000
    [] ratio = "0" -> 1

amountsMatch(cfg, amount1, amount2) ==
  LET a1 == BigInt(amount1)
      a2 == BigInt(amount2)
      larger == IF a1 > a2 THEN a1 ELSE a2
      smaller == IF a1 < a2 THEN a1 ELSE a2
      difference == larger - smaller
      toleranceAmount ==
        (larger * FloorScaledTolerance(cfg.amountTolerance)) \div ToleranceScale
  IN IF a1 = a2 THEN TRUE ELSE difference <= toleranceAmount

\* a swap score whose last boost is given to any account with two or more movements
calculateSwapConfidence_AtLeastTwo(inMove, outMove, allMovements) ==
  LET base == 50
      amountsBoost ==
        IF BigInt(inMove.amount) > 0 /\ BigInt(outMove.amount) > 0 THEN 20 ELSE 0
      accountMovements ==
        {i \in 1..Len(allMovements) : allMovements[i].account = inMove.account}
      onlyBoost == IF Cardinality(accountMovements) >= 2 THEN 30 ELSE 0
  IN Min(base + amountsBoost + onlyBoost, 100)

calculateSwapConfidence(inMove, outMove, allMovements) ==
  LET base == 50
      amountsBoost ==
        IF BigInt(inMove.amount) > 0 /\ BigInt(outMove.amount) > 0 THEN 20 ELSE 0
      accountMovements ==
        {i \in 1..Len(allMovements) : allMovements[i].account = inMove.account}
      onlyBoost == IF Cardinality(accountMovements) = 2 THEN 30 ELSE 0
  IN Min(base + amountsBoost + onlyBoost, 100)

\* a transfer score that adds 0.15 for a tolerance match
calculateTransferConfidence_LowToleranceBoost(cfg, inMove, outMove, allMovements) ==
  LET base == 60
      matchBoost ==
        IF inMove.amount = outMove.amount THEN 30
        ELSE IF amountsMatch(cfg, inMove.amount, outMove.amount) THEN 15 ELSE 0
      sameTokenMovements ==
        {i \in 1..Len(allMovements) : allMovements[i].mint = inMove.mint}
      simpleBoost == IF Cardinality(sameTokenMovements) = 2 THEN 20 ELSE 0
  IN Min(base + matchBoost + simpleBoost, 100)

calculateTransferConfidence(cfg, inMove, outMove, allMovements) ==
  LET base == 60
      matchBoost ==
        IF inMove.amount = outMove.amount THEN 30
        ELSE IF amountsMatch(cfg, inMove.amount, outMove.amount) THEN 25 ELSE 0
      sameTokenMovements ==
        {i \in 1..Len(allMovements) : allMovements[i].mint = inMove.mint}
      simpleBoost == IF Cardinality(sameTokenMovements) = 2 THEN 20 ELSE 0
  IN Min(base + matchBoost + simpleBoost, 100)

\* position of the first value equal to keys[i]: the rank of the group of
\* movement i in the iteration order of the insertion-ordered Map built by
\* the grouping loop, keys being the grouping key of each movement
FirstIdx(keys, i) ==
  CHOOSE k \in 1..i :
    /\ keys[k] = keys[i]
    /\ \A l \in 1..(k - 1) : keys[l] # keys[i]

\* lexicographic order on triples of positions
LexLess(x, y) ==
  \/ x[1] < y[1]
  \/ x[1] = y[1] /\ x[2] < y[2]
  \/ x[1] = y[1] /\ x[2] = y[2] /\ x[3] < y[3]

\* the first triple of a non-empty set in iteration order
FirstTriple(S) == CHOOSE x \in S : \A y \in S : x = y \/ LexLess(x, y)

----------------------------------------------------------------------------
(* EventAggregator: pattern detection *)

\* a swap candidate whose tokenIn and tokenOut are taken from the wrong movements
SwapCandidate_Reversed(account, inMove, outMove, confidence) ==
  [swapper |-> account,
   tokenIn |-> [mint |-> inMove.mint, amount |-> inMove.amount,
                decimals |-> inMove.decimals],
   tokenOut |-> [mint |-> outMove.mint, amount |-> outMove.amount,
                 decimals |-> outMove.decimals],
   atomicEvents |-> <<inMove.atomicEvent, outMove.atomicEvent>>,
   confidence |-> confidence]

\* the SwapCandidate returned at lines 196-210
SwapCandidate(account, inMove, outMove, confidence) ==
  [swapper |-> account,
   tokenIn |-> [mint |-> outMove.mint, amount |-> outMove.amount,
                decimals |-> outMove.decimals],
   tokenOut |-> [mint |-> inMove.mint, amount |-> inMove.amount,
                 decimals |-> inMove.decimals],
   atomicEvents |-> <<inMove.atomicEvent, outMove.atomicEvent>>,
   confidence |-> confidence]

\* a transfer candidate that reports the incoming (credit) amount
TransferCandidate_CreditAmount(mint, inMove, outMove, confidence) ==
  [sender |-> outMove.account,
   receiver |-> inMove.account,
   token |-> [mint |-> mint, amount |-> inMove.amount,
              decimals |-> outMove.decimals],
   atomicEvents |-> <<inMove.atomicEvent, outMove.atomicEvent>>,
   confidence |-> confidence]

\* the TransferCandidate returned at lines 254-264
TransferCandidate(mint, inMove, outMove, confidence) ==
  [sender |-> outMove.account,
   receiver |-> inMove.account,
   token |-> [mint |-> mint, amount |-> outMove.amount,
              decimals |-> outMove.decimals],
   atomicEvents |-> <<inMove.atomicEvent, outMove.atomicEvent>>,
   confidence |-> confidence]

\* a swap detection that gives up after the first account of the Map
identifySwapPattern_FirstAccountOnly(events) ==
  LET movements == extractTokenMovements(events)
      N == Len(movements)
      Qualifying ==
        {p \in (1..N) \X (1..N) :
           /\ movements[p[1]].direction = "IN"
           /\ movements[p[2]].direction = "OUT"
           /\ movements[p[1]].account = movements[p[2]].account
           /\ movements[p[1]].account = movements[1].account
           /\ movements[p[1]].mint # movements[p[2]].mint
           /\ calculateSwapConfidence(movements[p[1]], movements[p[2]], movements)
                > SwapThreshold}
      Ordered ==
        {<<FirstIdx([i \in 1..N |-> movements[i].account], p[1]), p[1], p[2]>> :
           p \in Qualifying}
  IN IF Qualifying = {} THEN None
     ELSE LET t == FirstTriple(Ordered)
              inMove == movements[t[2]]
              outMove == movements[t[3]]
          IN Some(SwapCandidate(inMove.account, inMove, outMove,
                    calculateSwapConfidence(inMove, outMove, movements)))

identifySwapPattern(events) ==
  LET movements == extractTokenMovements(events)
      N == Len(movements)
      Qualifying ==
        {p \in (1..N) \X (1..N) :
           /\ movements[p[1]].direction = "IN"
           /\ movements[p[2]].direction = "OUT"
           /\ movements[p[1]].account = movements[p[2]].account
           /\ movements[p[1]].mint # movements[p[2]].mint
           /\ calculateSwapConfidence(movements[p[1]], movements[p[2]], movements)
                > SwapThreshold}
      Ordered ==
        {<<FirstIdx([i \in 1..N |-> movements[i].account], p[1]), p[1], p[2]>> :
           p \in Qualifying}
  IN IF Qualifying = {} THEN None
     ELSE LET t == FirstTriple(Ordered)
              inMove == movements[t[2]]
              outMove == movements[t[3]]
          IN Some(SwapCandidate(inMove.account, inMove, outMove,
                    calculateSwapConfidence(inMove, outMove, movements)))

identifyTransferPattern(cfg, events) ==
  LET movements == extractTokenMovements(events)
      N == Len(movements)
      Qualifying ==
        {p \in (1..N) \X (1..N) :
           /\ movements[p[1]].direction = "IN"
           /\ movements[p[2]].direction = "OUT"
           /\ movements[p[1]].mint = movements[p[2]].mint
           /\ movements[p[1]].account # movements[p[2]].account
           /\ amountsMatch(cfg, movements[p[1]].amount, movements[p[2]].amount)
           /\ calculateTransferConfidence(cfg, movements[p[1]], movements[p[2]],
                                          movements) > TransferThreshold}
      Ordered ==
        {<<FirstIdx([i \in 1..N |-> movements[i].mint], p[1]), p[1], p[2]>> :
           p \in Qualifying}
  IN IF Qualifying = {} THEN None
     ELSE LET t == FirstTriple(Ordered)
              inMove == movements[t[2]]
              outMove == movements[t[3]]
          IN Some(TransferCandidate(inMove.mint, inMove, outMove,
                    calculateTransferConfidence(cfg, inMove, outMove, movements)))

\* a fee filter that compares the amount with the wrong event type
filterFeeEvents_WrongType(events, t) ==
  LET fee == t.meta.fee
  IN SelectSeq(events,
       LAMBDA e : IF e.type = "CREDIT_SOL" THEN BigInt(e.amount) # fee ELSE TRUE)

filterFeeEvents(events, t) ==
  LET fee == t.meta.fee
  IN SelectSeq(events,
       LAMBDA e : IF e.type = "DEBIT_SOL" THEN BigInt(e.amount) # fee ELSE TRUE)

----------------------------------------------------------------------------
(* EventAggregator: event constructors *)

\* a failed event that attaches the fee-filtered list
createFailedTransactionEvent_FilteredList(events, t) ==
  LET feeIdx == {i \in 1..Len(events) :
                   /\ events[i].type = "DEBIT_SOL"
                   /\ events[i].amount = NatToString(t.meta.fee)}
      feeAccount ==
        IF feeIdx # {}
        THEN events[CHOOSE i \in feeIdx : \A j \in feeIdx : i <= j].account
        ELSE None
      feePayer ==
        IF TruthyString(feeAccount) THEN feeAccount[1]
        ELSE IF TruthyString(AccountKeyAt(t, 0)) THEN AccountKeyAt(t, 0)[1]
        ELSE "unknown"
  IN [type |-> "TRANSACTION_FAILED",
      signature |-> t.signature,
      timestamp |-> t.blockTime,
      atomicEvents |-> filterFeeEvents(events, t),
      error |-> t.meta.err,
      feePaid |-> NatToString(t.meta.fee),
      feePayer |-> feePayer]

createFailedTransactionEvent(events, t) ==
  LET feeIdx == {i \in 1..Len(events) :
                   /\ events[i].type = "DEBIT_SOL"
                   /\ events[i].amount = NatToString(t.meta.fee)}
      feeAccount ==
        IF feeIdx # {}
        THEN events[CHOOSE i \in feeIdx : \A j \in feeIdx : i <= j].account
        ELSE None
      feePayer ==
        IF TruthyString(feeAccount) THEN feeAccount[1]
        ELSE IF TruthyString(AccountKeyAt(t, 0)) THEN AccountKeyAt(t, 0)[1]
        ELSE "unknown"
  IN [type |-> "TRANSACTION_FAILED",
      signature |-> t.signature,
      timestamp |-> t.blockTime,
      atomicEvents |-> events,
      error |-> t.meta.err,
      feePaid |-> NatToString(t.meta.fee),
      feePayer |-> feePayer]

\* (Number(tokenOut) / Number(tokenIn)).toString(): an integer quotient prints
\* as its decimal digits; any other quotient prints as a floating-point
\* literal, kept here as the pair it approximates
RateString(tokenOutAmount, tokenInAmount) ==
  IF tokenOutAmount % tokenInAmount = 0
  THEN [integer |-> TRUE, text |-> NatToString(tokenOutAmount \div tokenInAmount)]
  ELSE [integer |-> FALSE, num |-> tokenOutAmount, den |-> tokenInAmount]

createSwapEvent(candidate, t) ==
  LET tokenInAmount == BigInt(candidate.tokenIn.amount)
      tokenOutAmount == BigInt(candidate.tokenOut.amount)
      swapEvent == [type |-> "SWAP",
                    signature |-> t.signature,
                    timestamp |-> t.blockTime,
                    atomicEvents |-> candidate.atomicEvents,
                    swapper |-> candidate.swapper,
                    tokenIn |-> candidate.tokenIn,
                    tokenOut |-> candidate.tokenOut,
                    metadata |->
                      [aggregator |-> [confidence |-> candidate.confidence]]]
  IN IF tokenInAmount > 0
     THEN [f \in DOMAIN swapEvent \cup {"rate"} |->
             IF f = "rate" THEN RateString(tokenOutAmount, tokenInAmount)
             ELSE swapEvent[f]]
     ELSE swapEvent

createTransferEvent(candidate, t) ==
  [type |-> "TRANSFER",
   signature |-> t.signature,
   timestamp |-> t.blockTime,
   atomicEvents |-> candidate.atomicEvents,
   sender |-> candidate.sender,
   receiver |-> candidate.receiver,
   token |-> candidate.token,
   transferType |-> "DIRECT",
   metadata |-> [aggregator |-> [confidence |-> candidate.confidence]]]

createComplexTransactionEvent(events, t) ==
  [type |-> "COMPLEX_TRANSACTION",
   signature |-> t.signature,
   timestamp |-> t.blockTime,
   atomicEvents |-> events,
   subEvents |-> <<>>,
   metadata |-> [aggregator |-> [atomicEventCount |-> Len(events)]]]

createUnknownTransactionEvent(events, t, reason) ==
  [type |-> "UNKNOWN_TRANSACTION",
   signature |-> t.signature,
   timestamp |-> t.blockTime,
   atomicEvents |-> events,
   reason |-> reason,
   unmatchedEventsCount |-> Len(events),
   metadata |-> [system |-> [fee |-> NatToString(t.meta.fee),
                             logMessages |-> t.meta.logMessages]]]

----------------------------------------------------------------------------
(* EventAggregator.aggregate: the classification before the enricher loop *)

\* the test of line 83
TransactionFailed(t) == Truthy(t.meta.err)

FilteredEvents(cfg, events, t) ==
  IF cfg.includeFeeEvents THEN events ELSE filterFeeEvents(events, t)

\* the template string `${e.signature}-${e.type}-${e.account}` (lines 122-125)
EventKey(e) ==
  e.signature \o "-" \o e.type \o "-" \o TemplateString(e.account)

UnmatchedEvents(filteredEvents, candidate) ==
  LET usedEventSignatures ==
        {EventKey(candidate.atomicEvents[i]) : i \in 1..Len(candidate.atomicEvents)}
  IN SelectSeq(filteredEvents, LAMBDA e : EventKey(e) \notin usedEventSignatures)

\* transfer detection tried before swap detection
Branch_TransferBeforeSwap(cfg, events, t) ==
  LET filteredEvents == FilteredEvents(cfg, events, t)
      swapCandidate == identifySwapPattern(filteredEvents)
      transferCandidate == identifyTransferPattern(cfg, filteredEvents)
  IN IF TransactionFailed(t) THEN "failed"
     ELSE IF Len(filteredEvents) = 0 THEN "empty"
     ELSE IF ~IsNone(transferCandidate)
          THEN IF Len(UnmatchedEvents(filteredEvents, transferCandidate[1])) > 0
                  /\ cfg.generateComplexEvents
               THEN "escalated" ELSE "transfer"
     ELSE IF ~IsNone(swapCandidate) THEN "swap"
     ELSE IF Len(filteredEvents) > 1 /\ cfg.generateComplexEvents THEN "complex"
     ELSE "unknown"

\* the complex rule tried before transfer detection
Branch_ComplexBeforeTransfer(cfg, events, t) ==
  LET filteredEvents == FilteredEvents(cfg, events, t)
      swapCandidate == identifySwapPattern(filteredEvents)
      transferCandidate == identifyTransferPattern(cfg, filteredEvents)
  IN IF TransactionFailed(t) THEN "failed"
     ELSE IF Len(filteredEvents) = 0 THEN "empty"
     ELSE IF ~IsNone(swapCandidate) THEN "swap"
     ELSE IF Len(filteredEvents) > 1 /\ cfg.generateComplexEvents THEN "complex"
     ELSE IF ~IsNone(transferCandidate)
          THEN IF Len(UnmatchedEvents(filteredEvents, transferCandidate[1])) > 0
                  /\ cfg.generateComplexEvents
               THEN "escalated" ELSE "transfer"
     ELSE "unknown"

\* which return statement of aggregate is taken
Branch(cfg, events, t) ==
  LET filteredEvents == FilteredEvents(cfg, events, t)
      swapCandidate == identifySwapPattern(filteredEvents)
      transferCandidate == identifyTransferPattern(cfg, filteredEvents)
  IN IF TransactionFailed(t) THEN "failed"
     ELSE IF Len(filteredEvents) = 0 THEN "empty"
     ELSE IF ~IsNone(swapCandidate) THEN "swap"
     ELSE IF ~IsNone(transferCandidate)
          THEN IF Len(UnmatchedEvents(filteredEvents, transferCandidate[1])) > 0
                  /\ cfg.generateComplexEvents
               THEN "escalated" ELSE "transfer"
     ELSE IF Len(filteredEvents) > 1 /\ cfg.generateComplexEvents THEN "complex"
     ELSE "unknown"

\* a classification whose fallback builds the unknown event from the filtered list
Classify_UnknownOverFiltered(cfg, events, t) ==
  LET filteredEvents == FilteredEvents(cfg, events, t)
      b == Branch(cfg, events, t)
  IN CASE b = "failed" -> createFailedTransactionEvent(events, t)
       [] b = "empty" ->
            createUnknownTransactionEvent(events, t,
              "No meaningful events after filtering")
       [] b = "swap" -> createSwapEvent(identifySwapPattern(filteredEvents)[1], t)
       [] b = "transfer" ->
            createTransferEvent(identifyTransferPattern(cfg, filteredEvents)[1], t)
       [] b = "escalated" -> createComplexTransactionEvent(filteredEvents, t)
       [] b = "complex" -> createComplexTransactionEvent(filteredEvents, t)
       [] b = "unknown" ->
            createUnknownTransactionEvent(filteredEvents, t,
              "Could not identify transaction pattern")

Classify(cfg, events, t) ==
  LET filteredEvents == FilteredEvents(cfg, events, t)
      b == Branch(cfg, events, t)
  IN CASE b = "failed" -> createFailedTransactionEvent(events, t)
       [] b = "empty" ->
            createUnknownTransactionEvent(events, t,
              "No meaningful events after filtering")
       [] b = "swap" -> createSwapEvent(identifySwapPattern(filteredEvents)[1], t)
       [] b = "transfer" ->
            createTransferEvent(identifyTransferPattern(cfg, filteredEvents)[1], t)
       [] b = "escalated" -> createComplexTransactionEvent(filteredEvents, t)
       [] b = "complex" -> createComplexTransactionEvent(filteredEvents, t)
       [] b = "unknown" ->
            createUnknownTransactionEvent(events, t,
              "Could not identify transaction pattern")

----------------------------------------------------------------------------
(* JupiterEnricher *)

\* event.metadata, an absent field spreading like an empty object
Metadata(ev) ==
  IF "metadata" \in DOMAIN ev THEN ev.metadata ELSE [k \in {} |-> None]

\* { ...event, metadata: { jupiter_v6: value } }: the other namespaces are lost
WithJupiterMetadata_Overwriting(ev, value) ==
  [f \in DOMAIN ev \cup {"metadata"} |->
     IF f = "metadata" THEN [jupiter_v6 |-> value] ELSE ev[f]]

\* { ...event, metadata: { ...event.metadata, jupiter_v6: value } }
WithJupiterMetadata(ev, value) ==
  LET old == Metadata(ev)
      metadata == [k \in DOMAIN old \cup {"jupiter_v6"} |->
                     IF k = "jupiter_v6" THEN value ELSE old[k]]
  IN [f \in DOMAIN ev \cup {"metadata"} |->
        IF f = "metadata" THEN metadata ELSE ev[f]]

\* tx.transaction.message.accountKeys[index]; undefined when out of range
\* bs58.decode followed by BorshInstructionCoder.decode on ix.data, by the kind
\* of payload: "invalid" raises (not base58, or data missing), "unknown" has
\* no known discriminator (decode returns null), the others decode to the
\* instruction of that name
DecodeRaises(data) == data = "invalid"
Decoded(data) ==
  CASE data = "route" ->
         Some([name |-> "route", routePlan |-> Some("routePlan"), slippageBps |-> 50])
    [] data = "sharedAccountsRoute" ->
         Some([name |-> "sharedAccountsRoute", routePlan |-> Some("routePlan"),
               slippageBps |-> 0])
    [] data = "claim" ->
         Some([name |-> "claim", routePlan |-> None, slippageBps |-> 0])
    [] OTHER -> None

\* the holding accounts of the event's atomic events (lines 40-45)
InvolvedAccounts(ev) ==
  {ev.atomicEvents[i].tokenAccount :
     i \in {j \in 1..Len(ev.atomicEvents) : "tokenAccount" \in DOMAIN ev.atomicEvents[j]}}

\* one iteration of the instruction loop of enrich (lines 48-73):
\* "raise" leaves the loop through the outer catch, "match" breaks with
\* matchedIx set, "next" goes on to the following instruction
SchemaStep(ev, t, entry) ==
  IF IsNone(entry) THEN "raise"
  ELSE LET ix == entry[1]
       IN IF AccountKeyAt(t, ix.programIdIndex) # Some(JUPITER_PROGRAM_ID) THEN "next"
          ELSE IF DecodeRaises(ix.data) THEN "next"
          ELSE IF IsNone(Decoded(ix.data)) THEN "next"
          ELSE IF Decoded(ix.data)[1].name \notin {"route", "sharedAccountsRoute"}
               THEN "next"
          ELSE IF IsNone(ix.accounts) THEN "next"
          ELSE LET accountKeys ==
                     {AccountKeyAt(t, ix.accounts[1][k]) : k \in 1..Len(ix.accounts[1])}
               IN IF \E acc \in InvolvedAccounts(ev) : acc \in accountKeys
                  THEN "match" ELSE "next"

\* position of the first iteration that ends the loop, 0 if the loop runs out;
\* steps[i] is the outcome of the iteration on instruction i
FirstDeciding(steps) ==
  LET D == {i \in 1..Len(steps) : steps[i] # "next"}
  IN IF D = {} THEN 0 ELSE CHOOSE i \in D : \A j \in D : i <= j

Resolved(ev) == [ok |-> TRUE, event |-> ev]
Rejected == [ok |-> FALSE]

\* enrich with the schema loaded (lines 38-124)
enrichWithSchema(ev, t) ==
  LET instructions == t.message.instructions
      d == FirstDeciding([i \in 1..Len(instructions) |->
                            SchemaStep(ev, t, instructions[i])])
  IN IF d = 0
     THEN Resolved(WithJupiterMetadata(ev,
            [error |-> Some("No matching Jupiter V6 instruction found for this SWAP event.")]))
     ELSE IF SchemaStep(ev, t, instructions[d]) = "raise"
     THEN Resolved(WithJupiterMetadata(ev,
            [error |-> Some("Unexpected error in JupiterEnricher")]))
     ELSE LET decoded == Decoded(instructions[d][1].data)[1]
          IN Resolved(WithJupiterMetadata(ev,
               [protocol_name |-> "Jupiter",
                route |-> decoded.routePlan,
                slippage_bps |-> IF decoded.slippageBps # 0
                                 THEN Some(decoded.slippageBps) ELSE None,
                error |-> None]))

\* one iteration of the loop of enrichWithFallback (lines 130-147)
FallbackStep(t, entry) ==
  IF IsNone(entry) THEN "raise"
  ELSE IF AccountKeyAt(t, entry[1].programIdIndex) = Some(JUPITER_PROGRAM_ID)
       THEN "match" ELSE "next"

enrichWithFallback(ev, t, e) ==
  LET instructions == t.message.instructions
      d == FirstDeciding([i \in 1..Len(instructions) |->
                            FallbackStep(t, instructions[i])])
  IN IF d # 0 /\ FallbackStep(t, instructions[d]) = "raise" THEN Rejected
     ELSE IF d # 0
     THEN Resolved(WithJupiterMetadata(ev,
            [protocol_name |-> "Jupiter", route |-> None,
             slippage_bps |-> None, error |-> None]))
     ELSE IF /\ ev.type = "SWAP"
             /\ ~e.production
             /\ Len(instructions) > 0
             /\ Len(t.message.accountKeys) > FallbackAccountKeys
     THEN Resolved(WithJupiterMetadata(ev,
            [protocol_name |-> "Jupiter", route |-> Some("[]"),
             slippage_bps |-> None, error |-> None]))
     ELSE Resolved(WithJupiterMetadata(ev,
            [error |-> Some("No Jupiter V6 instruction found for this SWAP event.")]))

\* JupiterEnricher.enrich; coder is the field set by the constructor
JupiterEnrich(coder, ev, t, e) ==
  IF ev.type # "SWAP" THEN Resolved(ev)
  ELSE IF ~coder THEN enrichWithFallback(ev, t, e)
  ELSE enrichWithSchema(ev, t)

----------------------------------------------------------------------------
(* The configured plugins.  EnricherPlugin is an interface: besides the two  *)
(* JupiterEnricher instances (schema loaded or not) the list may hold any    *)
(* implementation, here one that annotates its own namespace and one whose   *)
(* promise rejects.                                                          *)

PluginName(plugin) ==
  IF plugin \in {"jupiter", "jupiter_fallback"} THEN "jupiter_v6" ELSE plugin

\* a plugin that writes metadata[name] and nothing else
AnnotatingEnrich(name, ev) ==
  LET old == Metadata(ev)
      metadata == [k \in DOMAIN old \cup {name} |->
                     IF k = name THEN [error |-> None] ELSE old[k]]
  IN Resolved([f \in DOMAIN ev \cup {"metadata"} |->
                 IF f = "metadata" THEN metadata ELSE ev[f]])

\* enricher.enrich(event, tx) for the plugin kinds of the model
Enrich(plugin, ev, t, e) ==
  CASE plugin = "jupiter" -> JupiterEnrich(TRUE, ev, t, e)
    [] plugin = "jupiter_fallback" -> JupiterEnrich(FALSE, ev, t, e)
    [] plugin = "throws" -> Rejected
    [] OTHER -> AnnotatingEnrich(plugin, ev)

----------------------------------------------------------------------------
(* StateDiffAnalyzer *)
(* Native balances are JavaScript numbers (integers of the model); asset     *)
(* amounts are decimal strings handled with BigInt, whose arithmetic is      *)
(* carried out here on the digit sequences so that no width is lost.         *)

\* the digits of BigInt(s).toString(): leading zeros dropped
StripZeros(d) ==
  LET Z == {i \in 1..Len(d) : d[i] # 0}
  IN IF Z = {} THEN <<0>>
     ELSE LET first == CHOOSE i \in Z : \A j \in Z : i <= j
          IN SubSeq(d, first, Len(d))

\* a < b for canonical digit sequences
BigLess(a, b) ==
  \/ Len(a) < Len(b)
  \/ /\ Len(a) = Len(b)
     /\ \E i \in 1..Len(a) : a[i] < b[i] /\ \A j \in 1..(i - 1) : a[j] = b[j]

\* a - b for canonical digit sequences with a >= b
BigSubMag(a, b) ==
  LET n == Len(a)
      pb == [i \in 1..n |-> IF i > n - Len(b) THEN b[i - (n - Len(b))] ELSE 0]
      borrow[i \in 1..(n + 1)] ==
        IF i = n + 1 THEN 0
        ELSE IF a[i] - pb[i] - borrow[i + 1] < 0 THEN 1 ELSE 0
  IN StripZeros([i \in 1..n |-> (a[i] - pb[i] - borrow[i + 1] + 10) % 10])

\* a subtraction that goes through a 64-bit float: the low digits are lost
calculateTokenAmountChange_Rounded(preAmount, postAmount) ==
  LET pre == StripZeros(preAmount)
      post == StripZeros(postAmount)
      exact == IF BigLess(post, pre) THEN BigSubMag(pre, post)
               ELSE BigSubMag(post, pre)
  IN [negative |-> BigLess(post, pre),
      digits |-> [i \in 1..Len(exact) |-> IF i <= 16 THEN exact[i] ELSE 0]]

\* calculateTokenAmountChange: BigInt(postAmount) - BigInt(preAmount), as a
\* sign and the digits of the magnitude
calculateTokenAmountChange(preAmount, postAmount) ==
  LET pre == StripZeros(preAmount)
      post == StripZeros(postAmount)
  IN IF BigLess(post, pre)
     THEN [negative |-> TRUE, digits |-> BigSubMag(pre, post)]
     ELSE [negative |-> FALSE, digits |-> BigSubMag(post, pre)]

\* balances[i] || 0 for a zero-based index
BalanceAt(balances, i) == IF i < Len(balances) THEN balances[i + 1] ELSE 0

\* a fee filter that drops every change equal to -fee
filterFeeChanges_DropAll(changes, fee) ==
  SelectSeq(changes, LAMBDA c : c.change # 0 - fee)

\* filterFeeChanges: the single change equal to -fee is dropped
filterFeeChanges(changes, fee) ==
  LET feeDebits == {i \in 1..Len(changes) : changes[i].change = 0 - fee}
  IN IF Cardinality(feeDebits) = 1
     THEN LET d == CHOOSE i \in feeDebits : TRUE
          IN [i \in 1..(Len(changes) - 1) |->
                IF i < d THEN changes[i] ELSE changes[i + 1]]
     ELSE changes

Abs(n) == IF n < 0 THEN 0 - n ELSE n
Max(a, b) == IF a > b THEN a ELSE b

\* the native changes with the unchanged accounts left in
BalanceChanges_KeepZero(t) ==
  LET maxLength == Max(Len(t.meta.preBalances), Len(t.meta.postBalances))
  IN [k \in 1..maxLength |->
        [accountIndex |-> k - 1,
         account |-> AccountKeyAt(t, k - 1),
         change |-> BalanceAt(t.meta.postBalances, k - 1)
                      - BalanceAt(t.meta.preBalances, k - 1)]]

\* lines 88-106: the non-zero native changes, in index order
BalanceChanges(t) ==
  LET maxLength == Max(Len(t.meta.preBalances), Len(t.meta.postBalances))
      all == [k \in 1..maxLength |->
                [accountIndex |-> k - 1,
                 account |-> AccountKeyAt(t, k - 1),
                 change |-> BalanceAt(t.meta.postBalances, k - 1)
                              - BalanceAt(t.meta.preBalances, k - 1)]]
  IN SelectSeq(all, LAMBDA c : c.change # 0)

SolEvent(c, t) ==
  [type |-> IF c.change > 0 THEN "CREDIT_SOL" ELSE "DEBIT_SOL",
   account |-> c.account,
   amount |-> NatToString(Abs(c.change)),
   signature |-> t.signature,
   timestamp |-> t.blockTime,
   currency |-> "SOL"]

analyzeSolBalanceChanges(cfg, t) ==
  LET balanceChanges == BalanceChanges(t)
      filteredChanges == IF cfg.includeFeeChanges THEN balanceChanges
                         ELSE filterFeeChanges(balanceChanges, t.meta.fee)
      minChange == parseInt(cfg.minBalanceChange)
      kept == SelectSeq(filteredChanges,
                LAMBDA c : ~IsNone(minChange) /\ Abs(c.change) >= minChange[1])
  IN [k \in 1..Len(kept) |-> SolEvent(kept[k], t)]

\* Map.get(accountIndex) on the map built from balances: the last record
\* with that index wins
MapGet(balances, accountIndex) ==
  LET P == {k \in 1..Len(balances) : balances[k].accountIndex = accountIndex}
  IN IF P = {} THEN None
     ELSE Some(balances[CHOOSE k \in P : \A j \in P : j <= k])

\* iteration order of allAccountIndices (lines 163-166): the indices of pre
\* then post, each at its first appearance
AllAccountIndices(pre, post) ==
  LET all == [k \in 1..(Len(pre) + Len(post)) |->
                IF k <= Len(pre) THEN pre[k].accountIndex
                ELSE post[k - Len(pre)].accountIndex]
      firsts == {k \in 1..Len(all) : \A j \in 1..(k - 1) : all[j] # all[k]}
      Rank(k) == Cardinality({j \in firsts : j <= k})
  IN [r \in 1..Cardinality(firsts) |->
        all[CHOOSE k \in firsts : Rank(k) = r]]

TokenBalanceChange(t, accountIndex, balance, change) ==
  [accountIndex |-> accountIndex,
   tokenAccount |-> AccountKeyAt(t, accountIndex),
   owner |-> balance.owner,
   mint |-> balance.mint,
   decimals |-> balance.uiTokenAmount.decimals,
   programId |-> balance.programId,
   change |-> change]

\* the change string "-" alone, which BigInt does not accept
NotANumber == [negative |-> TRUE, digits |-> <<>>]

\* the change `-${amount}` of a closed account (line 237) as BigInt reads it
\* at line 250: "-" followed by no digit is no number, "-00" is zero
ClosedChange(amount) ==
  IF Len(amount) = 0 THEN NotANumber
  ELSE [negative |-> StripZeros(amount) # <<0>>, digits |-> StripZeros(amount)]

\* one iteration of the loop over allAccountIndices (lines 172-241): the
\* change pushed for that index, if any
TokenChangeAt(t, accountIndex) ==
  LET preBalance == MapGet(t.meta.preTokenBalances, accountIndex)
      postBalance == MapGet(t.meta.postTokenBalances, accountIndex)
  IN IF ~IsNone(preBalance) /\ ~IsNone(postBalance)
     THEN IF preBalance[1].uiTokenAmount.amount # postBalance[1].uiTokenAmount.amount
          THEN Some(TokenBalanceChange(t, accountIndex, postBalance[1],
                 calculateTokenAmountChange(preBalance[1].uiTokenAmount.amount,
                                            postBalance[1].uiTokenAmount.amount)))
          ELSE None
     ELSE IF ~IsNone(postBalance)
     THEN IF postBalance[1].uiTokenAmount.amount # <<0>>
          THEN Some(TokenBalanceChange(t, accountIndex, postBalance[1],
                 [negative |-> FALSE,
                  digits |-> StripZeros(postBalance[1].uiTokenAmount.amount)]))
          ELSE None
     ELSE IF ~IsNone(preBalance)
     THEN IF preBalance[1].uiTokenAmount.amount # <<0>>
          THEN Some(TokenBalanceChange(t, accountIndex, preBalance[1],
                 ClosedChange(preBalance[1].uiTokenAmount.amount)))
          ELSE None
     ELSE None

\* processTemporaryAccountTransfers returns its argument
processTemporaryAccountTransfers(changes) == changes

\* the event with the holding account in the account field
SplEvent_HoldingAccount(c, t) ==
  [type |-> IF ~c.change.negative /\ c.change.digits # <<0>>
            THEN "CREDIT_SPL" ELSE "DEBIT_SPL",
   account |-> c.tokenAccount,
   amount |-> c.change.digits,
   signature |-> t.signature,
   timestamp |-> t.blockTime,
   mint |-> c.mint,
   tokenAccount |-> c.tokenAccount,
   owner |-> c.owner,
   decimals |-> c.decimals,
   programId |-> c.programId]

\* lines 258-275: the event of a change that passed the filter
SplEvent(c, t) ==
  [type |-> IF ~c.change.negative /\ c.change.digits # <<0>>
            THEN "CREDIT_SPL" ELSE "DEBIT_SPL",
   account |-> Some(c.owner),
   amount |-> c.change.digits,
   signature |-> t.signature,
   timestamp |-> t.blockTime,
   mint |-> c.mint,
   tokenAccount |-> c.tokenAccount,
   owner |-> c.owner,
   decimals |-> c.decimals,
   programId |-> c.programId]

analyzeSplTokenBalanceChanges(cfg, t) ==
  LET indices == AllAccountIndices(t.meta.preTokenBalances, t.meta.postTokenBalances)
      pushed == SelectSeq(indices, LAMBDA i : ~IsNone(TokenChangeAt(t, i)))
      tokenBalanceChanges == [k \in 1..Len(pushed) |-> TokenChangeAt(t, pushed[k])[1]]
      processedChanges == IF cfg.traceTemporaryAccounts
                          THEN processTemporaryAccountTransfers(tokenBalanceChanges)
                          ELSE tokenBalanceChanges
      minChange == StripZeros(cfg.minBalanceChange)
      kept == SelectSeq(processedChanges,
                        LAMBDA c : ~BigLess(c.change.digits, minChange))
  IN IF \E k \in 1..Len(processedChanges) : processedChanges[k].change = NotANumber
     THEN Thrown("SyntaxError")
     ELSE Returned([k \in 1..Len(kept) |-> SplEvent(kept[k], t)])

\* analyze with the native pass after the asset pass
analyze_AssetsFirst(cfg, t) ==
  LET solEvents == analyzeSolBalanceChanges(cfg, t)
      splEvents == analyzeSplTokenBalanceChanges(cfg, t)
  IN IF splEvents.ok THEN Returned(splEvents.value \o solEvents) ELSE splEvents

\* StateDiffAnalyzer.analyze: the native events followed by the asset events
analyze(cfg, t) ==
  LET solEvents == analyzeSolBalanceChanges(cfg, t)
      splEvents == analyzeSplTokenBalanceChanges(cfg, t)
  IN IF splEvents.ok THEN Returned(solEvents \o splEvents.value) ELSE splEvents

----------------------------------------------------------------------------
(* Inputs *)

SeqUpTo(S, n) == UNION {[1..k -> S] : k \in 0..n}

Signature == "sig"
BlockTime == Some(1640995200)
TransactionFee == 5000

Sol(type, account, amount) ==
  [type |-> type, account |-> Some(account), amount |-> NatToString(amount),
   signature |-> Signature, currency |-> "SOL"]

Spl(type, account, mint, amount, tokenAccount) ==
  [type |-> type, account |-> Some(account), amount |-> NatToString(amount),
   signature |-> Signature, mint |-> mint, tokenAccount |-> Some(tokenAccount),
   decimals |-> 6]

\* atomic events the classification is exercised on: a fee debit, a native
\* pair, a two-asset pair on one account (also with a zero amount), and
\* credits equal to, within and beyond the tolerance of the debit of 1000000
EventUniverse ==
  { Sol("DEBIT_SOL", "A", TransactionFee),
    Sol("DEBIT_SOL", "A", 700),
    Sol("CREDIT_SOL", "B", 700),
    Spl("DEBIT_SPL", "A", "M1", 1000000, "ta_A_M1"),
    Spl("CREDIT_SPL", "A", "M2", 2000000, "ta_A_M2"),
    Spl("CREDIT_SPL", "A", "M2", 0, "ta_A_M2"),
    Spl("CREDIT_SPL", "B", "M1", 1000000, "ta_B_M1"),
    Spl("CREDIT_SPL", "B", "M1", 999000, "ta_B_M1"),
    Spl("CREDIT_SPL", "B", "M1", 998000, "ta_B_M1"),
    Spl("CREDIT_SPL", "B", "M1", 5, "ta_B_M1") }

\* atomic events that reach every return statement of aggregate
PipeUniverse ==
  { Sol("DEBIT_SOL", "A", TransactionFee),
    Spl("DEBIT_SPL", "A", "M1", 1000, "ta_A_M1"),
    Spl("CREDIT_SPL", "A", "M2", 2000, "ta_A_M2"),
    Spl("CREDIT_SPL", "B", "M1", 1000, "ta_B_M1") }

ShortKeys == <<"feePayer", JUPITER_PROGRAM_ID, "ta_A_M1", "ta_A_M2", "otherProgram">>
LongKeys == ShortKeys \o <<"k5", "k6", "k7", "k8", "k9", "k10">>

Ix(programIdIndex, data, accounts) ==
  Some([programIdIndex |-> programIdIndex, data |-> data, accounts |-> accounts])

JupiterRouteIx == Ix(1, "route", Some(<<0, 2>>))

\* instruction entries: a null entry, instructions of another program or with
\* an out-of-range programIdIndex, and Jupiter instructions by payload and by
\* account list (touching a holding account, not touching one, missing)
InstructionUniverse ==
  { None,
    Ix(4, "route", Some(<<0, 2>>)),
    Ix(99, "route", Some(<<0, 2>>)),
    JupiterRouteIx,
    Ix(1, "route", Some(<<0, 4, 99>>)),
    Ix(1, "route", None),
    Ix(1, "sharedAccountsRoute", Some(<<3>>)),
    Ix(1, "claim", Some(<<2>>)),
    Ix(1, "unknown", Some(<<2>>)),
    Ix(1, "invalid", Some(<<2>>)) }

ErrObject == [t |-> "object", v |-> "{\"InstructionError\":[0,\"Custom\"]}"]
ErrZero == [t |-> "number", v |-> "0"]

Tx(err, keys, instructions) ==
  [signature |-> Signature,
   blockTime |-> BlockTime,
   meta |-> [err |-> err, fee |-> TransactionFee, logMessages |-> <<>>],
   message |-> [accountKeys |-> keys, instructions |-> instructions]]

DefaultTolerance == "0.001"

Idle ==
  /\ args = None
  /\ ret = None

\* one aggregate call on an aggregator with at most one JupiterEnricher
Init ==
  /\ config \in [amountTolerance : {DefaultTolerance, "0.01"},
                 includeFeeEvents : BOOLEAN,
                 generateComplexEvents : BOOLEAN]
  /\ enrichers \in {<<>>, <<"jupiter">>, <<"jupiter_fallback">>}
  /\ env = [production |-> FALSE]
  /\ atomicEvents \in SeqUpTo(EventUniverse, MaxEvents)
  /\ \E err \in {JsonNull, ErrObject, ErrZero} :
       \E instructions \in {<<>>, <<JupiterRouteIx>>, <<None>>} :
         tx = Tx(err, ShortKeys, instructions)
  /\ pc = "start"
  /\ event = None
  /\ idx = 0
  /\ inflight = 0
  /\ calls = <<>>
  /\ result = None
  /\ Idle

\* atomic events that mix a fee debit, a native pair on two accounts and a
\* two-asset pair on one account
TraceUniverse ==
  { Sol("DEBIT_SOL", "A", TransactionFee),
    Sol("DEBIT_SOL", "A", 700),
    Sol("CREDIT_SOL", "B", 700),
    Spl("DEBIT_SPL", "A", "M1", 1000, "ta_A_M1"),
    Spl("CREDIT_SPL", "A", "M2", 2000, "ta_A_M2") }

InitTrace ==
  /\ config \in [amountTolerance : {DefaultTolerance},
                 includeFeeEvents : BOOLEAN,
                 generateComplexEvents : BOOLEAN]
  /\ enrichers \in {<<"jupiter">>, <<"throws">>}
  /\ env = [production |-> FALSE]
  /\ atomicEvents \in SeqUpTo(TraceUniverse, MaxTraceEvents)
  /\ \E err \in {JsonNull, ErrObject} : tx = Tx(err, ShortKeys, <<JupiterRouteIx>>)
  /\ pc = "start"
  /\ event = None
  /\ idx = 0
  /\ inflight = 0
  /\ calls = <<>>
  /\ result = None
  /\ Idle

PluginKinds == {"jupiter", "pluginX", "pluginY", "throws"}

\* one aggregate call on an aggregator with any list of plugins
InitPipe ==
  /\ config \in [amountTolerance : {DefaultTolerance},
                 includeFeeEvents : BOOLEAN,
                 generateComplexEvents : {TRUE}]
  /\ enrichers \in SeqUpTo(PluginKinds, MaxEnrichers)
  /\ env = [production |-> FALSE]
  /\ atomicEvents \in SeqUpTo(PipeUniverse, MaxPipeEvents)
  /\ \E err \in {JsonNull, ErrObject} : tx = Tx(err, ShortKeys, <<JupiterRouteIx>>)
  /\ pc = "start"
  /\ event = None
  /\ idx = 0
  /\ inflight = 0
  /\ calls = <<>>
  /\ result = None
  /\ Idle

----------------------------------------------------------------------------
(* EventAggregator.aggregate *)

\* lines 83-162 up to the first enricher loop: classification
ClassifyStep ==
  /\ pc = "start"
  /\ event' = Some(Classify(config, atomicEvents, tx))
  /\ pc' = "loop"
  /\ UNCHANGED <<config, enrichers, env, atomicEvents, tx, idx, inflight,
                 calls, result, args, ret>>

\* enricher.enrich(event, tx) is called and its promise awaited
InvokeEnricher ==
  /\ pc = "loop"
  /\ inflight = 0
  /\ idx < Len(enrichers)
  /\ inflight' = idx + 1
  /\ calls' = Append(calls, [enricher |-> idx + 1, input |-> event[1],
                             output |-> None])
  /\ UNCHANGED <<config, enrichers, env, atomicEvents, tx, pc, event, idx,
                 result, args, ret>>

\* the awaited promise resolves: event = await ...
EnricherResolves ==
  /\ pc = "loop"
  /\ inflight # 0
  /\ LET out == Enrich(enrichers[inflight], event[1], tx, env)
     IN /\ out.ok
        /\ event' = Some(out.event)
        /\ calls' = [calls EXCEPT ![Len(calls)].output = Some(out.event)]
  /\ idx' = inflight
  /\ inflight' = 0
  /\ UNCHANGED <<config, enrichers, env, atomicEvents, tx, pc, result, args, ret>>

\* the awaited promise rejects: nothing catches it and aggregate rejects
EnricherRejects ==
  /\ pc = "loop"
  /\ inflight # 0
  /\ ~Enrich(enrichers[inflight], event[1], tx, env).ok
  /\ pc' = "rejected"
  /\ inflight' = 0
  /\ UNCHANGED <<config, enrichers, env, atomicEvents, tx, event, idx, calls,
                 result, args, ret>>

\* return event
Return ==
  /\ pc = "loop"
  /\ inflight = 0
  /\ idx = Len(enrichers)
  /\ result' = event
  /\ pc' = "returned"
  /\ UNCHANGED <<config, enrichers, env, atomicEvents, tx, event, idx, inflight,
                 calls, args, ret>>

Next ==
  \/ ClassifyStep
  \/ InvokeEnricher
  \/ EnricherResolves
  \/ EnricherRejects
  \/ Return

Spec == Init /\ [][Next]_vars

SpecPipe == InitPipe /\ [][Next]_vars

\* one aggregate call on lists of up to MaxTraceEvents events, long enough
\* for the pair attached, the filtered list and the input to differ
SpecTrace == InitTrace /\ [][Next]_vars

----------------------------------------------------------------------------
(* JupiterEnricher.enrich called directly *)

\* atomic event lists that make aggregate build each variant of the union
EnrichAtomicEvents ==
  { <<Spl("DEBIT_SPL", "A", "M1", 1000, "ta_A_M1"),
      Spl("CREDIT_SPL", "A", "M2", 2000, "ta_A_M2")>>,
    <<Spl("DEBIT_SPL", "A", "M1", 1000, "ta_A_M1"),
      Spl("CREDIT_SPL", "B", "M1", 1000, "ta_B_M1")>>,
    <<Spl("DEBIT_SPL", "A", "M1", 1000, "ta_A_M1"),
      Spl("DEBIT_SPL", "A", "M1", 1000, "ta_A_M1")>>,
    <<Spl("DEBIT_SPL", "A", "M1", 1000, "ta_A_M1")>>,
    <<>> }

\* the events aggregate builds from those lists: every variant of the union
AggregatedEvents ==
  { Classify(cfg, events, t) :
      cfg \in {[amountTolerance |-> DefaultTolerance, includeFeeEvents |-> FALSE,
                generateComplexEvents |-> TRUE]},
      events \in EnrichAtomicEvents,
      t \in {Tx(JsonNull, ShortKeys, <<>>), Tx(ErrObject, ShortKeys, <<>>)} }

\* the events enrich is called with: the variants as aggregate builds them,
\* each SWAP again carrying plugin metadata already (another plugin's and a
\* stale jupiter_v6), and a bare SWAP with no metadata and no atomic events
EnrichEventUniverse ==
  AggregatedEvents
    \cup { [ev EXCEPT !.metadata =
             [aggregator |-> [confidence |-> 100],
              other_plugin |-> [error |-> None],
              jupiter_v6 |-> [error |-> Some("stale")]]] :
           ev \in {e \in AggregatedEvents : e.type = "SWAP"} }
    \cup { [type |-> "SWAP", signature |-> Signature, timestamp |-> BlockTime,
            atomicEvents |-> <<>>, swapper |-> Some("A"),
            tokenIn |-> [mint |-> "M1", amount |-> NatToString(1), decimals |-> 6],
            tokenOut |-> [mint |-> "M2", amount |-> NatToString(2), decimals |-> 6]] }

InitEnrich ==
  /\ config = [amountTolerance |-> DefaultTolerance, includeFeeEvents |-> FALSE,
               generateComplexEvents |-> TRUE]
  /\ enrichers \in {<<"jupiter">>, <<"jupiter_fallback">>}
  /\ env \in [production : BOOLEAN]
  /\ atomicEvents = <<>>
  /\ \E keys \in {ShortKeys, LongKeys} :
       \E instructions \in SeqUpTo(InstructionUniverse, MaxInstructions) :
         tx = Tx(JsonNull, keys, instructions)
  /\ pc = "enrich"
  /\ \E ev \in EnrichEventUniverse : event = Some(ev)
  /\ idx = 0
  /\ inflight = 0
  /\ calls = <<>>
  /\ result = None
  /\ Idle

\* the promise returned by enrich resolves; the argument is left as it was
EnrichReturns ==
  /\ pc = "enrich"
  /\ LET out == Enrich(enrichers[1], event[1], tx, env)
     IN /\ out.ok
        /\ result' = Some(out.event)
  /\ pc' = "resolved"
  /\ UNCHANGED <<config, enrichers, env, atomicEvents, tx, event, idx, inflight,
                 calls, args, ret>>

\* the promise returned by enrich rejects
EnrichRaises ==
  /\ pc = "enrich"
  /\ ~Enrich(enrichers[1], event[1], tx, env).ok
  /\ pc' = "raised"
  /\ UNCHANGED <<config, enrichers, env, atomicEvents, tx, event, idx, inflight,
                 calls, result, args, ret>>

NextEnrich == EnrichReturns \/ EnrichRaises

SpecEnrich == InitEnrich /\ [][NextEnrich]_vars

----------------------------------------------------------------------------
(* amountsMatch called on a pair of amounts *)

ToleranceRatios == {"0", "0.000005", "0.0003", DefaultTolerance, "0.01"}

LargerAmounts ==
  {100 * k : k \in 0..10} \cup {1000 * k : k \in 1..10} \cup {1500, 200000}

InitTol ==
  /\ \E ratio \in ToleranceRatios :
       config = [amountTolerance |-> ratio, includeFeeEvents |-> FALSE,
                 generateComplexEvents |-> TRUE]
  /\ \E larger \in LargerAmounts : \E d \in 0..MaxDiff :
       /\ d <= larger
       /\ \/ args = Some([amount1 |-> NatToString(larger),
                          amount2 |-> NatToString(larger - d)])
          \/ args = Some([amount1 |-> NatToString(larger - d),
                          amount2 |-> NatToString(larger)])
  /\ ret = None
  /\ pc = "call"
  /\ enrichers = <<>>
  /\ env = [production |-> FALSE]
  /\ atomicEvents = <<>>
  /\ tx = Tx(JsonNull, ShortKeys, <<>>)
  /\ event = None
  /\ idx = 0
  /\ inflight = 0
  /\ calls = <<>>
  /\ result = None

AmountsMatchCall ==
  /\ pc = "call"
  /\ ret' = Some(amountsMatch(config, args[1].amount1, args[1].amount2))
  /\ pc' = "done"
  /\ UNCHANGED <<config, enrichers, env, atomicEvents, tx, event, idx, inflight,
                 calls, result, args>>

NextTol == AmountsMatchCall

SpecTol == InitTol /\ [][NextTol]_vars

----------------------------------------------------------------------------
(* StateDiffAnalyzer.analyze called on a raw transaction *)

RawTx(err, fee, keys, instructions, pre, post, preTokens, postTokens) ==
  [signature |-> Signature,
   blockTime |-> BlockTime,
   meta |-> [err |-> err, fee |-> fee, logMessages |-> <<>>,
             preBalances |-> pre, postBalances |-> post,
             preTokenBalances |-> preTokens,
             postTokenBalances |-> postTokens],
   message |-> [accountKeys |-> keys, instructions |-> instructions]]

TokenBalance(accountIndex, owner, mint, amount) ==
  [accountIndex |-> accountIndex, mint |-> mint, owner |-> owner,
   programId |-> "TokenProgram",
   uiTokenAmount |-> [amount |-> amount, decimals |-> 6]]

AnalyzerKeys == <<"feePayer", "acc1", "ta_A_M1", "ta_A_M2", "ta_B_M1">>

\* 18446744073709551615 and 9223372036854775807
U64Max == <<1, 8, 4, 4, 6, 7, 4, 4, 0, 7, 3, 7, 0, 9, 5, 5, 1, 6, 1, 5>>
I64Max == <<9, 2, 2, 3, 3, 7, 2, 0, 3, 6, 8, 5, 4, 7, 7, 5, 8, 0, 7>>

\* token-balance records: three holding accounts, with zero, small and
\* beyond-64-bit amounts
TokenBalanceUniverse ==
  { TokenBalance(2, "A", "M1", NatToString(250)),
    TokenBalance(3, "A", "M2", NatToString(0)),
    TokenBalance(3, "A", "M2", NatToString(100)),
    TokenBalance(4, "B", "M1", U64Max),
    TokenBalance(4, "B", "M1", I64Max) }

NativeBalances == {0, 5000, 10000}

IdleAnalyzer ==
  /\ enrichers = <<>>
  /\ env = [production |-> FALSE]
  /\ atomicEvents = <<>>
  /\ event = None
  /\ idx = 0
  /\ inflight = 0
  /\ calls = <<>>
  /\ result = None
  /\ args = None
  /\ ret = None

\* analyze on transactions that vary in their native balances
InitNative ==
  /\ config \in [minBalanceChange : {NatToString(0), NatToString(6000)},
                 includeFeeChanges : BOOLEAN,
                 traceTemporaryAccounts : {FALSE}]
                \cup [minBalanceChange : {NatToString(0)},
                      includeFeeChanges : {FALSE},
                      traceTemporaryAccounts : {TRUE}]
  /\ \E fee \in {0, TransactionFee} :
       \E preBalances \in [1..MaxAccounts -> NativeBalances] :
         \E postBalances \in [1..MaxAccounts -> NativeBalances]
                               \cup [1..(MaxAccounts - 1) -> NativeBalances] :
           \E tokens \in {<<<<>>, <<>>>>,
                          <<<<TokenBalance(2, "A", "M1", NatToString(250))>>,
                            <<TokenBalance(2, "A", "M1", NatToString(250))>>>>,
                          <<<<TokenBalance(2, "A", "M1", NatToString(250))>>,
                            <<TokenBalance(2, "A", "M1", NatToString(100))>>>>} :
             tx = RawTx(JsonNull, fee, AnalyzerKeys, <<>>, preBalances,
                        postBalances, tokens[1], tokens[2])
  /\ pc = "analyze"
  /\ IdleAnalyzer

\* analyze on transactions that vary in their token-balance records
InitAsset ==
  /\ config \in [minBalanceChange : {NatToString(0), NatToString(200)},
                 includeFeeChanges : {FALSE},
                 traceTemporaryAccounts : {FALSE}]
  /\ \E preTokenBalances \in SeqUpTo(TokenBalanceUniverse, MaxTokenBalances) :
       \E postTokenBalances \in SeqUpTo(TokenBalanceUniverse, MaxTokenBalances) :
         tx = RawTx(JsonNull, TransactionFee, AnalyzerKeys, <<>>,
                    <<10000, 0, 0>>, <<0, 5000, 5000>>,
                    preTokenBalances, postTokenBalances)
  /\ pc = "analyze"
  /\ IdleAnalyzer

\* analyzer.analyze(rawTx) returns, or throws
Analyze ==
  /\ pc = "analyze"
  /\ \E outcome \in {analyze(config, tx)} :
       IF outcome.ok
       THEN ret' = Some(outcome.value) /\ pc' = "analyzed"
       ELSE ret' = None /\ pc' = "raised"
  /\ UNCHANGED <<config, enrichers, env, atomicEvents, tx, event, idx, inflight,
                 calls, result, args>>

\* a second call on the same analyzer with the same transaction
AnalyzeAgain ==
  /\ pc = "analyzed"
  /\ \E outcome \in {analyze(config, tx)} :
       IF outcome.ok
       THEN result' = Some(outcome.value) /\ pc' = "analyzed twice"
       ELSE result' = None /\ pc' = "raised"
  /\ UNCHANGED <<config, enrichers, env, atomicEvents, tx, event, idx, inflight,
                 calls, args, ret>>

NextAnalyze == Analyze \/ AnalyzeAgain

SpecNative == InitNative /\ [][NextAnalyze]_vars

SpecAsset == InitAsset /\ [][NextAnalyze]_vars

----------------------------------------------------------------------------
(* Properties *)

DefaultConfig ==
  [amountTolerance |-> DefaultTolerance, includeFeeEvents |-> FALSE,
   generateComplexEvents |-> TRUE]

\* aggregate has classified: `event` holds the event built by the classification
\* or the one returned by the last enricher resolved so far
Classified == pc \in {"loop", "returned", "rejected"}

Filtered == FilteredEvents(config, atomicEvents, tx)

AssetOf(e) == IF IsSpl(e) THEN e.mint ELSE "SOL"
IsDebit(e) == e.type \in {"DEBIT_SOL", "DEBIT_SPL"}
IsCredit(e) == e.type \in {"CREDIT_SOL", "CREDIT_SPL"}

\* |a - b| <= max(a, b) * ratio, over the rationals
WithinTolerance(ratio, a, b) ==
  LET larger == IF a > b THEN a ELSE b
      smaller == IF a < b THEN a ELSE b
  IN (larger - smaller) * RatioDen(ratio) <= larger * RatioNum(ratio)

HasErrorString(ev, name) ==
  /\ name \in DOMAIN Metadata(ev)
  /\ "error" \in DOMAIN Metadata(ev)[name]
  /\ ~IsNone(Metadata(ev)[name].error)

\* C1: a rejecting enricher does not abort aggregate: whenever the enrich() of
\* a configured plugin rejects, aggregate still resolves, the event it returns
\* carries metadata[pluginName].error for that plugin, and the call never
\* ends rejected.
C1_EnricherFailureContained ==
  \A i \in 1..Len(calls) :
    ~Enrich(enrichers[calls[i].enricher], calls[i].input, tx, env).ok
      => /\ pc # "rejected"
         /\ pc = "returned"
              => HasErrorString(result[1], PluginName(enrichers[calls[i].enricher]))

\* C2: every transaction whose meta.err is not null aggregates to
\* TRANSACTION_FAILED whatever the atomic events and the configuration, with
\* feePaid the decimal string of meta.fee, error equal to meta.err and the
\* unfiltered atomic events attached.
C2_NonNullErrIsFailed ==
  (Classified /\ tx.meta.err # JsonNull)
    => /\ event[1].type = "TRANSACTION_FAILED"
       /\ event[1].feePaid = NatToString(tx.meta.fee)
       /\ event[1].error = tx.meta.err
       /\ event[1].atomicEvents = atomicEvents

\* the filtered events are one debit and one credit on the same account for
\* two different assets; d and c are their positions
SwapShaped(evs, d, c) ==
  /\ Len(evs) = 2
  /\ {d, c} = {1, 2}
  /\ IsDebit(evs[d])
  /\ IsCredit(evs[c])
  /\ evs[d].account = evs[c].account
  /\ AssetOf(evs[d]) # AssetOf(evs[c])

\* C3: on a successful transaction whose filtered events are exactly one debit
\* and one credit on the same account for two different assets, the event is
\* a SWAP with swapper that account, tokenIn the debited asset and amount,
\* tokenOut the credited asset and amount, and exactly those two atomic events
\* attached; for 1000000 out and 2000000 in the rate is "2".
C3_SimpleSwap ==
  \A d, c \in 1..2 :
    (Classified /\ tx.meta.err = JsonNull /\ SwapShaped(Filtered, d, c))
      => /\ event[1].type = "SWAP"
         /\ event[1].swapper = Filtered[d].account
         /\ event[1].tokenIn.mint = AssetOf(Filtered[d])
         /\ event[1].tokenIn.amount = Filtered[d].amount
         /\ event[1].tokenOut.mint = AssetOf(Filtered[c])
         /\ event[1].tokenOut.amount = Filtered[c].amount
         /\ Len(event[1].atomicEvents) = 2
         /\ {event[1].atomicEvents[1], event[1].atomicEvents[2]}
              = {Filtered[d], Filtered[c]}
         /\ (BigInt(Filtered[d].amount) = 1000000
             /\ BigInt(Filtered[c].amount) = 2000000)
              => /\ "rate" \in DOMAIN event[1]
                 /\ event[1].rate = [integer |-> TRUE, text |-> <<2>>]

C3_Witness ==
  /\ pc = "returned"
  /\ tx.meta.err = JsonNull
  /\ \E d, c \in 1..2 : SwapShaped(Filtered, d, c)
  /\ result[1].type = "SWAP"
  /\ result[1].tokenIn.amount = NatToString(1000000)
  /\ result[1].rate = [integer |-> TRUE, text |-> <<2>>]

\* the filtered events are one debit and one credit of the same asset on two
\* different accounts, with amounts within the configured tolerance
TransferShaped(evs, d, c) ==
  /\ Len(evs) = 2
  /\ {d, c} = {1, 2}
  /\ IsDebit(evs[d])
  /\ IsCredit(evs[c])
  /\ evs[d].account # evs[c].account
  /\ AssetOf(evs[d]) = AssetOf(evs[c])
  /\ WithinTolerance(config.amountTolerance,
                     BigInt(evs[d].amount), BigInt(evs[c].amount))

\* C4: on a successful transaction whose filtered events are exactly one debit
\* on S and one credit on R # S of the same asset, with amounts equal or within
\* the configured tolerance, the event is a TRANSFER with sender S, receiver R,
\* token.mint the asset and token.amount the debit amount, also when the
\* credit amount differs from it.
C4_ToleranceTransfer ==
  \A d, c \in 1..2 :
    (Classified /\ tx.meta.err = JsonNull /\ TransferShaped(Filtered, d, c))
      => /\ event[1].type = "TRANSFER"
         /\ event[1].sender = Filtered[d].account
         /\ event[1].receiver = Filtered[c].account
         /\ event[1].token.mint = AssetOf(Filtered[d])
         /\ event[1].token.amount = Filtered[d].amount

C4_Witness ==
  /\ pc = "returned"
  /\ tx.meta.err = JsonNull
  /\ \E d, c \in 1..2 :
       /\ TransferShaped(Filtered, d, c)
       /\ Filtered[d].amount # Filtered[c].amount
       /\ result[1].token.amount = Filtered[d].amount
  /\ result[1].type = "TRANSFER"

\* the filtered events are a native debit and an equal native credit on two
\* different accounts
NativePair(evs, d, c) ==
  /\ Len(evs) = 2
  /\ {d, c} = {1, 2}
  /\ evs[d].type = "DEBIT_SOL"
  /\ evs[c].type = "CREDIT_SOL"
  /\ evs[d].account # evs[c].account
  /\ BigInt(evs[d].amount) = BigInt(evs[c].amount)

NativeTransferAs(sentinel) ==
  \A d, c \in 1..2 :
    (Classified /\ tx.meta.err = JsonNull /\ NativePair(Filtered, d, c))
      => /\ event[1].type = "TRANSFER"
         /\ event[1].sender = Filtered[d].account
         /\ event[1].receiver = Filtered[c].account
         /\ event[1].token.amount = Filtered[d].amount
         /\ event[1].token.decimals = NativeDecimals
         /\ event[1].token.mint = sentinel

\* C5: a successful transaction with one native debit and an equal native
\* credit on two different accounts (fee excluded) aggregates to TRANSFER
\* with sender the debit account, receiver the credit account, token.amount
\* that value, token.decimals 9 and the asset identifier "NATIVE".
C5_NativeTransferNamedNATIVE == NativeTransferAs("NATIVE")

\* what aggregate does on that transaction: every field as C5 says, the
\* asset identifier being "SOL"
NativeTransferNamedSOL == NativeTransferAs("SOL")

\* a fee debit next to the native pair, filtered out before the pair is
\* classified: the TRANSFER returned names the asset "SOL"
FeeExcludedNativeTransfer ==
  /\ pc = "returned"
  /\ tx.meta.err = JsonNull
  /\ Len(atomicEvents) = 3
  /\ \E d, c \in 1..2 : NativePair(Filtered, d, c)
  /\ result[1].type = "TRANSFER"
  /\ result[1].token.mint = "SOL"

\* the only atomic event is a native debit of exactly meta.fee
OnlyFeeDebit ==
  /\ Len(atomicEvents) = 1
  /\ atomicEvents[1].type = "DEBIT_SOL"
  /\ BigInt(atomicEvents[1].amount) = tx.meta.fee

\* C6: with the default configuration, a successful transaction whose only
\* atomic event is a native debit of exactly meta.fee aggregates to
\* UNKNOWN_TRANSACTION with reason "No meaningful events after filtering", and
\* the event's atomicEvents is the unfiltered input list.
C6_OnlyFeeIsUnknown ==
  (Classified /\ tx.meta.err = JsonNull /\ config = DefaultConfig /\ OnlyFeeDebit)
    => /\ event[1].type = "UNKNOWN_TRANSACTION"
       /\ event[1].reason = "No meaningful events after filtering"
       /\ event[1].atomicEvents = atomicEvents

C6_Witness ==
  /\ pc = "returned"
  /\ tx.meta.err = JsonNull
  /\ config = DefaultConfig
  /\ OnlyFeeDebit
  /\ result[1].type = "UNKNOWN_TRANSACTION"
  /\ Len(result[1].atomicEvents) = 1

\* C7: tolerance boundary of amountsMatch: with larger = max(a, b), the pair
\* matches when |a - b| equals larger * toleranceRatio exactly and does not
\* match when |a - b| is one unit beyond that value.
C7_ToleranceBoundary ==
  pc = "done"
    => LET a == BigInt(args[1].amount1)
           b == BigInt(args[1].amount2)
           larger == IF a > b THEN a ELSE b
           diff == larger - (IF a < b THEN a ELSE b)
           num == RatioNum(config.amountTolerance)
           den == RatioDen(config.amountTolerance)
       IN /\ diff * den = larger * num => ret[1]
          /\ (diff - 1) * den = larger * num => ~ret[1]

\* C8: in every branch of aggregate the configured enrichers are applied after
\* classification, each exactly once, in list order and never concurrently:
\* enricher i+1 is invoked only after enricher i has resolved and receives the
\* event enricher i returned (the first receives the classified event), and
\* the value returned by aggregate is the event returned by the last enricher.
C8_EnrichersEachOnceInOrder ==
  /\ \A i \in 1..Len(calls) : calls[i].enricher = i
  /\ inflight # 0 => inflight = Len(calls) /\ IsNone(calls[Len(calls)].output)
  /\ Len(calls) >= 1 => calls[1].input = Classify(config, atomicEvents, tx)
  /\ \A i \in 2..Len(calls) :
       /\ ~IsNone(calls[i - 1].output)
       /\ calls[i].input = calls[i - 1].output[1]
  /\ pc \in {"returned", "rejected"}
       => /\ Len(calls) = Len(enrichers)
          /\ pc = "returned"
          /\ result = IF Len(enrichers) = 0
                      THEN Some(Classify(config, atomicEvents, tx))
                      ELSE calls[Len(calls)].output

\* C9: JupiterEnricher.enrich never alters the classification and touches only
\* its own namespace: the returned event has the same type and the same value
\* for every field other than metadata, every metadata key other than
\* jupiter_v6 is preserved unchanged and no other key is added, the argument
\* is left as it was, and an event that is not a SWAP is returned unchanged.
C9_EnrichFrame ==
  /\ [](pc = "resolved"
          => LET in == event[1]
                 out == result[1]
             IN /\ out.type = in.type
                /\ DOMAIN out \ {"metadata"} = DOMAIN in \ {"metadata"}
                /\ \A f \in DOMAIN in \ {"metadata"} : out[f] = in[f]
                /\ DOMAIN Metadata(out) \ {"jupiter_v6"}
                     = DOMAIN Metadata(in) \ {"jupiter_v6"}
                /\ \A k \in DOMAIN Metadata(in) \ {"jupiter_v6"} :
                     Metadata(out)[k] = Metadata(in)[k]
                /\ in.type # "SWAP" => out = in)
  /\ [][event' = event]_vars

C9_Witness ==
  /\ pc = "resolved"
  /\ event[1].type = "SWAP"
  /\ "other_plugin" \in DOMAIN Metadata(event[1])
  /\ "jupiter_v6" \in DOMAIN Metadata(result[1])
  /\ Metadata(result[1]).jupiter_v6 # Metadata(event[1]).jupiter_v6

\* C10: JupiterEnricher.enrich does not raise: for every event and every
\* transaction, malformed instruction entries included, with the schema loaded
\* and in fallback mode, the returned promise resolves.
C10_EnrichNeverRaises == pc # "raised"

----------------------------------------------------------------------------
(* Claims on JupiterEnricher's metadata *)

\* the instruction entry targets the Jupiter V6 program
TargetsJupiter(t, entry) ==
  /\ ~IsNone(entry)
  /\ AccountKeyAt(t, entry[1].programIdIndex) = Some(JUPITER_PROGRAM_ID)

\* the instruction entry is a Jupiter V6 instruction whose payload decodes
\* as route or sharedAccountsRoute
DecodesAsRoute(t, entry) ==
  /\ TargetsJupiter(t, entry)
  /\ ~DecodeRaises(entry[1].data)
  /\ ~IsNone(Decoded(entry[1].data))
  /\ Decoded(entry[1].data)[1].name \in {"route", "sharedAccountsRoute"}

JupiterMetadata(ev) == Metadata(ev).jupiter_v6

HasJupiterMetadata(ev) == "jupiter_v6" \in DOMAIN Metadata(ev)

\* protocol_name 'Jupiter', a route field, a slippage_bps field, error null
SuccessMetadata(m) ==
  /\ DOMAIN m = {"protocol_name", "route", "slippage_bps", "error"}
  /\ m.protocol_name = "Jupiter"
  /\ IsNone(m.error)

\* a non-null error string and no protocol_name
ErrorMetadata(m) ==
  /\ "error" \in DOMAIN m
  /\ ~IsNone(m.error)
  /\ "protocol_name" \notin DOMAIN m

\* C11: for a SWAP event and a transaction whose top-level instructions
\* contain a Jupiter V6 instruction that decodes as route or
\* sharedAccountsRoute, the event enrich returns carries the success metadata
\* (protocol_name 'Jupiter', route, slippage_bps, error null), also when the
\* event's atomicEvents list is empty.
C11_RouteInstructionEnriches ==
  (/\ pc = "resolved"
   /\ event[1].type = "SWAP"
   /\ \E i \in 1..Len(tx.message.instructions) :
        DecodesAsRoute(tx, tx.message.instructions[i]))
    => /\ HasJupiterMetadata(result[1])
       /\ SuccessMetadata(JupiterMetadata(result[1]))

\* C12: for a SWAP event and a transaction in which no top-level instruction
\* targets the Jupiter V6 program (an empty instruction list included), the
\* event enrich returns has a non-null metadata.jupiter_v6.error and no
\* protocol_name, whatever the number of account keys and whether or not the
\* schema was loaded.
C12_NoJupiterInstructionIsError ==
  (/\ pc = "resolved"
   /\ event[1].type = "SWAP"
   /\ \A i \in 1..Len(tx.message.instructions) :
        ~TargetsJupiter(tx, tx.message.instructions[i]))
    => /\ HasJupiterMetadata(result[1])
       /\ ErrorMetadata(JupiterMetadata(result[1]))

\* C13: without the schema (coder = null after the constructor's catch) the
\* enricher is a pure program-id-presence check: a SWAP event gets the minimal
\* success metadata (protocol_name 'Jupiter', route null, slippage_bps null,
\* error null) if and only if some top-level instruction's program id is the
\* Jupiter V6 program id, and an error string otherwise.
C13_FallbackIsProgramIdPresence ==
  (/\ pc = "resolved"
   /\ enrichers = <<"jupiter_fallback">>
   /\ event[1].type = "SWAP")
    => /\ HasJupiterMetadata(result[1])
       /\ IF \E i \in 1..Len(tx.message.instructions) :
               TargetsJupiter(tx, tx.message.instructions[i])
          THEN JupiterMetadata(result[1])
                 = [protocol_name |-> "Jupiter", route |-> None,
                    slippage_bps |-> None, error |-> None]
          ELSE ErrorMetadata(JupiterMetadata(result[1]))

----------------------------------------------------------------------------
(* Claims on the decision sequence of aggregate *)

SemanticEventTypes ==
  {"SWAP", "TRANSFER", "TRANSACTION_FAILED", "COMPLEX_TRANSACTION",
   "UNKNOWN_TRANSACTION"}

\* the rules of the decision sequence, by position, on the call's inputs
RuleApplies(rule) ==
  CASE rule = 1 -> TransactionFailed(tx)
    [] rule = 2 -> Len(Filtered) = 0
    [] rule = 3 -> ~IsNone(identifySwapPattern(Filtered))
    [] rule = 4 -> ~IsNone(identifyTransferPattern(config, Filtered))
    [] rule = 5 -> Len(Filtered) > 1 /\ config.generateComplexEvents
    [] rule = 6 -> TRUE

FirstRule == CHOOSE r \in 1..6 : RuleApplies(r) /\ \A q \in 1..(r - 1) : ~RuleApplies(q)

\* what the rule at that position returns
DecidedBy(rule, ev) ==
  CASE rule = 1 -> ev.type = "TRANSACTION_FAILED"
    [] rule = 2 -> /\ ev.type = "UNKNOWN_TRANSACTION"
                   /\ ev.reason = "No meaningful events after filtering"
    [] rule = 3 -> ev.type = "SWAP"
    [] rule = 4 -> /\ ev.type \in {"TRANSFER", "COMPLEX_TRANSACTION"}
                   /\ (Len(Filtered) = 2 \/ ~config.generateComplexEvents)
                        => ev.type = "TRANSFER"
    [] rule = 5 -> ev.type = "COMPLEX_TRANSACTION"
    [] rule = 6 -> /\ ev.type = "UNKNOWN_TRANSACTION"
                   /\ ev.reason = "Could not identify transaction pattern"

\* C15: when all enrichers resolve, aggregate returns exactly one semantic
\* event, of one of the five variants, and it is the one the first applicable
\* rule of the sequence failed, empty-after-filter, swap, transfer, complex,
\* unknown decides; the call ends rejected only if an enricher rejected.
C15_FirstRuleDecides ==
  /\ pc = "returned"
       => /\ Len(result) = 1
          /\ result[1].type \in SemanticEventTypes
          /\ DecidedBy(FirstRule, result[1])
  /\ pc = "rejected"
       => /\ Len(calls) >= 1
          /\ ~Enrich(enrichers[calls[Len(calls)].enricher],
                     calls[Len(calls)].input, tx, env).ok

\* a transfer pair of two events, to which the complex rule applies as well
C15_Witness ==
  /\ pc = "returned"
  /\ ~RuleApplies(1) /\ ~RuleApplies(3)
  /\ RuleApplies(4) /\ RuleApplies(5)
  /\ result[1].type = "TRANSFER"

----------------------------------------------------------------------------
(* Claims on StateDiffAnalyzer.analyze *)

Analyzed == pc \in {"analyzed", "analyzed twice"}

AccountIndices ==
  0..(Max(Len(tx.meta.preBalances), Len(tx.meta.postBalances)) - 1)

NativeChange(i) ==
  BalanceAt(tx.meta.postBalances, i) - BalanceAt(tx.meta.preBalances, i)

NativeEvents == SelectSeq(ret[1], IsSol)
AssetEvents == SelectSeq(ret[1], IsSpl)

\* native balances equal at every index, token-balance records identical
NoBalanceChange ==
  /\ \A i \in AccountIndices : NativeChange(i) = 0
  /\ tx.meta.preTokenBalances = tx.meta.postTokenBalances

\* C16: for a transaction whose pre and post native balances are equal at
\* every account index and whose pre and post token-balance records are
\* identical (or both empty), analyze returns the empty sequence, for every
\* configuration and every fee value.
C16_NoChangeNoEvents ==
  (Analyzed /\ NoBalanceChange) => ret[1] = <<>>

C16_Witness ==
  /\ Analyzed
  /\ NoBalanceChange
  /\ Len(tx.meta.preTokenBalances) > 0
  /\ tx.meta.fee = 0
  /\ config.includeFeeChanges
  /\ \E i \in AccountIndices : BalanceAt(tx.meta.preBalances, i) > 0
  /\ ret[1] = <<>>

\* the indices whose non-zero native change equals -fee
FeeCandidates ==
  {i \in AccountIndices : NativeChange(i) # 0 /\ NativeChange(i) = 0 - tx.meta.fee}

\* the native changes the fee heuristic keeps
KeptByFeeHeuristic ==
  LET changed == {i \in AccountIndices : NativeChange(i) # 0}
  IN IF ~config.includeFeeChanges /\ Cardinality(FeeCandidates) = 1
     THEN changed \ FeeCandidates ELSE changed

\* C17: with includeFeeChanges false the native pass drops the change equal
\* to -fee when exactly one non-zero change equals it, and keeps every change
\* when none or several do; a change of -(amount + fee) is never dropped; with
\* includeFeeChanges true nothing is dropped.  Each kept change of at least
\* minBalanceChange is one native event of its account, amount and direction.
C17_FeeExclusionHeuristic ==
  Analyzed =>
    /\ \A i \in AccountIndices :
         LET E == {k \in 1..Len(NativeEvents) :
                     NativeEvents[k].account = Some(AnalyzerKeys[i + 1])}
         IN IF i \in KeptByFeeHeuristic
               /\ Abs(NativeChange(i)) >= BigInt(config.minBalanceChange)
            THEN /\ Cardinality(E) = 1
                 /\ \A k \in E :
                      /\ NativeEvents[k].amount = NatToString(Abs(NativeChange(i)))
                      /\ NativeEvents[k].type =
                           IF NativeChange(i) > 0 THEN "CREDIT_SOL" ELSE "DEBIT_SOL"
            ELSE E = {}
    /\ \A k \in 1..Len(NativeEvents) :
         \E i \in AccountIndices : NativeEvents[k].account = Some(AnalyzerKeys[i + 1])

\* a fee payer that pays the fee only and is dropped, next to a sender of
\* amount + fee that is kept
C17_Witness ==
  /\ Analyzed
  /\ ~config.includeFeeChanges
  /\ tx.meta.fee = TransactionFee
  /\ Cardinality(FeeCandidates) = 1
  /\ \E i \in AccountIndices : NativeChange(i) = 0 - (TransactionFee + TransactionFee)
  /\ Len(NativeEvents) = 2
  /\ \A k \in 1..Len(NativeEvents) :
       NativeEvents[k].amount # NatToString(TransactionFee)
       \/ NativeEvents[k].type = "CREDIT_SOL"

\* a + b on canonical digit sequences
BigAddMag(a, b) ==
  LET n == Max(Len(a), Len(b)) + 1
      pa == [i \in 1..n |-> IF i > n - Len(a) THEN a[i - (n - Len(a))] ELSE 0]
      pb == [i \in 1..n |-> IF i > n - Len(b) THEN b[i - (n - Len(b))] ELSE 0]
      carry[i \in 1..(n + 1)] ==
        IF i = n + 1 THEN 0 ELSE (pa[i] + pb[i] + carry[i + 1]) \div 10
  IN StripZeros([i \in 1..n |-> (pa[i] + pb[i] + carry[i + 1]) % 10])

BigLeq(a, b) == ~BigLess(b, a)

TokenIndices ==
  {tx.meta.preTokenBalances[k].accountIndex : k \in 1..Len(tx.meta.preTokenBalances)}
    \cup {tx.meta.postTokenBalances[k].accountIndex :
            k \in 1..Len(tx.meta.postTokenBalances)}

PreAt(i) == MapGet(tx.meta.preTokenBalances, i)
PostAt(i) == MapGet(tx.meta.postTokenBalances, i)
PreAmount(i) == PreAt(i)[1].uiTokenAmount.amount
PostAmount(i) == PostAt(i)[1].uiTokenAmount.amount
InBoth(i) == ~IsNone(PreAt(i)) /\ ~IsNone(PostAt(i))
OnlyPost(i) == IsNone(PreAt(i)) /\ ~IsNone(PostAt(i))
OnlyPre(i) == ~IsNone(PreAt(i)) /\ IsNone(PostAt(i))

\* the asset events whose holding account is accountKeys[i]
AssetEventsAt(i) ==
  {k \in 1..Len(AssetEvents) : AssetEvents[k].tokenAccount = Some(AnalyzerKeys[i + 1])}

\* the cases in which the asset pass is said to emit an event for index i
AssetChanged(i) ==
  \/ InBoth(i) /\ PreAmount(i) # PostAmount(i)
  \/ OnlyPost(i) /\ PostAmount(i) # NatToString(0)
  \/ OnlyPre(i) /\ PreAmount(i) # NatToString(0)

\* |change| >= minimum, without subtracting
ChangeAtLeast(i, minimum) ==
  CASE InBoth(i) ->
         IF BigLess(PreAmount(i), PostAmount(i))
         THEN BigLeq(BigAddMag(PreAmount(i), minimum), PostAmount(i))
         ELSE BigLeq(BigAddMag(PostAmount(i), minimum), PreAmount(i))
    [] OnlyPost(i) -> BigLeq(minimum, PostAmount(i))
    [] OnlyPre(i) -> BigLeq(minimum, PreAmount(i))

\* e is the event the asset pass is said to emit for index i
DescribesAssetChange(e, i) ==
  /\ e.tokenAccount = Some(AnalyzerKeys[i + 1])
  /\ CASE InBoth(i) ->
            /\ e.account = Some(PostAt(i)[1].owner)
            /\ IF BigLess(PreAmount(i), PostAmount(i))
               THEN /\ e.type = "CREDIT_SPL"
                    /\ BigAddMag(e.amount, PreAmount(i)) = PostAmount(i)
               ELSE /\ e.type = "DEBIT_SPL"
                    /\ BigAddMag(e.amount, PostAmount(i)) = PreAmount(i)
       [] OnlyPost(i) ->
            /\ e.account = Some(PostAt(i)[1].owner)
            /\ e.type = "CREDIT_SPL"
            /\ e.amount = PostAmount(i)
       [] OnlyPre(i) ->
            /\ e.account = Some(PreAt(i)[1].owner)
            /\ e.type = "DEBIT_SPL"
            /\ e.amount = PreAmount(i)

EmitsAboveMinimum(i) ==
  AssetChanged(i) /\ ChangeAtLeast(i, StripZeros(config.minBalanceChange))

\* C18 (as stated): per account index of the union of pre and post
\* token-balance records: in both with different amounts gives one event of
\* amount |post - pre|, CREDIT if post > pre and DEBIT if post < pre; only in
\* post with a non-zero amount gives one CREDIT of post.amount; only in pre
\* with a non-zero amount gives one DEBIT of pre.amount; otherwise no event.
\* At most one asset event per index, its account the token owner and its
\* tokenAccount accountKeys[index].
C18_AssetPassUnfiltered ==
  Analyzed =>
    /\ \A i \in TokenIndices :
         IF AssetChanged(i)
         THEN /\ Cardinality(AssetEventsAt(i)) = 1
              /\ \A k \in AssetEventsAt(i) : DescribesAssetChange(AssetEvents[k], i)
         ELSE AssetEventsAt(i) = {}
    /\ \A k \in 1..Len(AssetEvents) :
         \E i \in TokenIndices : k \in AssetEventsAt(i)

\* C18 (amended): the three cases give their one event when the absolute
\* change is at least minBalanceChange ("0" by default, which passes every
\* change); a change below minBalanceChange gives no event, like an index
\* in none of the three cases.  At most one asset event per index, its
\* account the token owner and its tokenAccount accountKeys[index].
C18_AssetPass ==
  Analyzed =>
    /\ \A i \in TokenIndices :
         IF EmitsAboveMinimum(i)
         THEN /\ Cardinality(AssetEventsAt(i)) = 1
              /\ \A k \in AssetEventsAt(i) : DescribesAssetChange(AssetEvents[k], i)
         ELSE AssetEventsAt(i) = {}
    /\ \A k \in 1..Len(AssetEvents) :
         \E i \in TokenIndices : k \in AssetEventsAt(i)

\* with a minBalanceChange above zero, a closed account that gives the DEBIT
\* of its pre amount, next to a closed account with a smaller non-zero
\* amount that gives no event
C18_Witness ==
  /\ Analyzed
  /\ BigInt(config.minBalanceChange) > 0
  /\ \E i, k \in TokenIndices :
       /\ OnlyPre(i) /\ EmitsAboveMinimum(i)
       /\ \E e \in AssetEventsAt(i) :
            /\ AssetEvents[e].type = "DEBIT_SPL"
            /\ AssetEvents[e].amount = PreAmount(i)
            /\ AssetEvents[e].account = Some(PreAt(i)[1].owner)
       /\ OnlyPre(k) /\ AssetChanged(k) /\ ~EmitsAboveMinimum(k)
       /\ AssetEventsAt(k) = {}
  /\ Len(AssetEvents) = 1

\* 9223372036854775808
TwoTo63 == <<9, 2, 2, 3, 3, 7, 2, 0, 3, 6, 8, 5, 4, 7, 7, 5, 8, 0, 8>>

\* C19: the asset amounts are diffed as exact integers beyond the 64-bit
\* range: the amount of the event of an account present in pre and post is
\* exactly |post - pre| (it adds up with the smaller amount to the larger
\* one), and for pre 18446744073709551615 and post 9223372036854775807 the
\* event is a DEBIT of exactly 9223372036854775808.
C19_ExactAssetDiff ==
  Analyzed =>
    \A i \in TokenIndices :
      InBoth(i) =>
        /\ \A k \in AssetEventsAt(i) :
             IF BigLess(PreAmount(i), PostAmount(i))
             THEN BigAddMag(AssetEvents[k].amount, PreAmount(i)) = PostAmount(i)
             ELSE BigAddMag(AssetEvents[k].amount, PostAmount(i)) = PreAmount(i)
        /\ (PreAmount(i) = U64Max /\ PostAmount(i) = I64Max)
             => \E k \in AssetEventsAt(i) :
                  /\ AssetEvents[k].type = "DEBIT_SPL"
                  /\ AssetEvents[k].amount = TwoTo63

C19_Witness ==
  /\ Analyzed
  /\ \E i \in TokenIndices :
       /\ InBoth(i)
       /\ PreAmount(i) = U64Max
       /\ PostAmount(i) = I64Max
       /\ \E k \in AssetEventsAt(i) : AssetEvents[k].amount = TwoTo63

\* position of account index i in the iteration order of the index union:
\* first appearance in preTokenBalances, then in postTokenBalances
UnionPosition(i) ==
  LET P == {k \in 1..Len(tx.meta.preTokenBalances) :
              tx.meta.preTokenBalances[k].accountIndex = i}
      Q == {k \in 1..Len(tx.meta.postTokenBalances) :
              tx.meta.postTokenBalances[k].accountIndex = i}
  IN IF P # {} THEN CHOOSE k \in P : \A j \in P : k <= j
     ELSE Len(tx.meta.preTokenBalances) + (CHOOSE k \in Q : \A j \in Q : k <= j)

\* the zero-based position of an account key held by an event
IndexOfKey(key) ==
  CHOOSE i \in 0..(Len(AnalyzerKeys) - 1) : Some(AnalyzerKeys[i + 1]) = key

\* C20: in the sequence analyze returns every native event precedes every
\* asset event, the native events are in ascending account-index order, the
\* asset events are in the iteration order of the index union (first
\* appearance in preTokenBalances, then the indices only in postTokenBalances
\* in their order there), and a second call on the same transaction returns
\* the same sequence.
C20_StableOrder ==
  /\ Analyzed =>
       \A j, k \in 1..Len(ret[1]) :
         j < k =>
           /\ IsSpl(ret[1][j]) => IsSpl(ret[1][k])
           /\ (IsSol(ret[1][j]) /\ IsSol(ret[1][k]))
                => IndexOfKey(ret[1][j].account) < IndexOfKey(ret[1][k].account)
           /\ (IsSpl(ret[1][j]) /\ IsSpl(ret[1][k]))
                => UnionPosition(IndexOfKey(ret[1][j].tokenAccount))
                     < UnionPosition(IndexOfKey(ret[1][k].tokenAccount))
  /\ pc = "analyzed twice" => result = ret

\* native events followed by asset events whose order is not the index order
C20_Witness ==
  /\ pc = "analyzed twice"
  /\ Len(NativeEvents) >= 2
  /\ Len(AssetEvents) = 3
  /\ IndexOfKey(AssetEvents[1].tokenAccount) > IndexOfKey(AssetEvents[2].tokenAccount)
  /\ OnlyPost(IndexOfKey(AssetEvents[3].tokenAccount))
  /\ InBoth(IndexOfKey(AssetEvents[1].tokenAccount))

----------------------------------------------------------------------------
(* The /decode handler of server.ts *)
(* `args` holds the request, `ret` the responses sent so far.  A raw_tx is   *)
(* any JSON value: null, an object that is not a transaction (analyze then   *)
(* raises on its missing meta), or a transaction.                            *)

VERSION == "1.0.0"

DefaultAnalyzerConfig ==
  [minBalanceChange |-> NatToString(0), includeFeeChanges |-> FALSE,
   traceTemporaryAccounts |-> FALSE]

NotATransaction == [t |-> "object", v |-> "{}"]

IsRawTransaction(v) == "meta" \in DOMAIN v

\* !raw_tx
Falsy(v) == ~IsRawTransaction(v) /\ ~Truthy(v)

Reply(status, body) == [status |-> status, body |-> body]

ErrorReply(status, error) == Reply(status, [error |-> error])

\* transactions sent to the service: a swap by owner A, no asset change, or
\* a closed account whose amount is the empty string; successful or failed,
\* with instruction lists over a null entry and a Jupiter instruction
ServerTransactions ==
  { RawTx(err, TransactionFee, AnalyzerKeys, instructions,
          <<10000, 0>>, <<5000, 0>>, tokens[1], tokens[2]) :
      err \in {JsonNull, ErrObject},
      instructions \in SeqUpTo({None, Ix(1, "route", Some(<<2>>))}, MaxInstructions),
      tokens \in {<<<<>>, <<>>>>,
                  <<<<TokenBalance(4, "B", "M1", <<>>)>>, <<>>>>,
                  << <<TokenBalance(2, "A", "M1", NatToString(250)),
                       TokenBalance(3, "A", "M2", NatToString(0))>>,
                     <<TokenBalance(2, "A", "M1", NatToString(100)),
                       TokenBalance(3, "A", "M2", NatToString(100))>> >>} }

\* request bodies: none, one without raw_tx, and one per raw_tx value
RequestBodies ==
  {None, Some([other |-> "x"])}
    \cup {Some([raw_tx |-> v]) : v \in {JsonNull, NotATransaction} \cup ServerTransactions}

\* a request arrives; the JupiterEnricher the handler constructs loads its
\* schema or not
InitServer ==
  /\ \E body \in RequestBodies : args = Some([body |-> body])
  /\ ret = <<>>
  /\ pc = "request"
  /\ config = DefaultConfig
  /\ enrichers \in {<<"jupiter">>, <<"jupiter_fallback">>}
  /\ env \in [production : BOOLEAN]
  /\ atomicEvents = <<>>
  /\ tx = Tx(JsonNull, <<>>, <<>>)
  /\ event = None
  /\ idx = 0
  /\ inflight = 0
  /\ calls = <<>>
  /\ result = None

\* lines 31-46: the handler up to the call of aggregate.  Destructuring a
\* missing body raises inside the try block and is answered by the catch
\* clause, like a raising analyze
DecodeRequest ==
  /\ pc = "request"
  /\ LET body == args[1].body
     IN IF IsNone(body)
        THEN /\ ret' = Append(ret, ErrorReply(500, "DECODING_FAILED"))
             /\ pc' = "replied"
             /\ UNCHANGED <<atomicEvents, tx>>
        ELSE IF "raw_tx" \notin DOMAIN body[1] \/ Falsy(body[1].raw_tx)
        THEN /\ ret' = Append(ret, ErrorReply(400, "INVALID_REQUEST"))
             /\ pc' = "replied"
             /\ UNCHANGED <<atomicEvents, tx>>
        ELSE IF ~IsRawTransaction(body[1].raw_tx)
        THEN /\ ret' = Append(ret, ErrorReply(500, "DECODING_FAILED"))
             /\ pc' = "replied"
             /\ UNCHANGED <<atomicEvents, tx>>
        ELSE \E outcome \in {analyze(DefaultAnalyzerConfig, body[1].raw_tx)} :
               IF outcome.ok
               THEN /\ atomicEvents' = outcome.value
                    /\ tx' = body[1].raw_tx
                    /\ pc' = "start"
                    /\ UNCHANGED ret
               ELSE /\ ret' = Append(ret, ErrorReply(500, "DECODING_FAILED"))
                    /\ pc' = "replied"
                    /\ UNCHANGED <<atomicEvents, tx>>
  /\ UNCHANGED <<config, enrichers, env, event, idx, inflight, calls, result, args>>

\* lines 46-56: the awaited aggregate has settled and the handler answers
DecodeReply ==
  /\ ~IsNone(args)
  /\ \/ /\ pc = "returned"
        /\ ret' = Append(ret, Reply(200, [event |-> result[1], version |-> VERSION]))
     \/ /\ pc = "rejected"
        /\ ret' = Append(ret, ErrorReply(500, "DECODING_FAILED"))
  /\ pc' = "replied"
  /\ UNCHANGED <<config, enrichers, env, atomicEvents, tx, event, idx, inflight,
                 calls, result, args>>

NextServer ==
  \/ DecodeRequest
  \/ ClassifyStep
  \/ InvokeEnricher
  \/ EnricherResolves
  \/ EnricherRejects
  \/ Return
  \/ DecodeReply

SpecServer == InitServer /\ [][NextServer]_vars

\* raw_tx is missing from the request
RawTxMissing ==
  \/ IsNone(args[1].body)
  \/ "raw_tx" \notin DOMAIN args[1].body[1]
  \/ args[1].body[1].raw_tx = JsonNull

\* analyze raised on the raw_tx, or an enricher made aggregate reject
DecodeRaised ==
  \/ ~IsRawTransaction(args[1].body[1].raw_tx)
  \/ \E outcome \in {analyze(DefaultAnalyzerConfig, args[1].body[1].raw_tx)} :
       ~outcome.ok
  \/ Len(calls) > 0 /\ IsNone(calls[Len(calls)].output)

\* C14: /decode answers every request with exactly one response: 400 with
\* error INVALID_REQUEST whenever raw_tx is missing, a request without a body
\* included, and then neither analyze nor aggregate runs; 500 with error
\* DECODING_FAILED whenever analyze or aggregate raises; 200 with the event
\* and the version otherwise.
C14_DecodeAnswers ==
  /\ [](/\ Len(ret) <= 1
        /\ pc = "replied"
             => /\ Len(ret) = 1
                /\ IF RawTxMissing
                   THEN ret[1] = ErrorReply(400, "INVALID_REQUEST")
                   ELSE IF DecodeRaised
                   THEN ret[1] = ErrorReply(500, "DECODING_FAILED")
                   ELSE ret[1] = Reply(200, [event |-> result[1],
                                             version |-> VERSION]))
  /\ [][(pc = "request" /\ RawTxMissing)
          => (pc' = "replied" /\ UNCHANGED <<atomicEvents, event, calls, result>>)]_vars

----------------------------------------------------------------------------
(* Concurrent aggregate calls on one EventAggregator                        *)
(* The instance holds config and enrichers (private readonly, lines 59-60); *)
(* every other value of aggregate is a parameter or a block-scoped local of *)
(* the invocation.  In this specification atomicEvents, tx, pc, event, idx, *)
(* inflight and result are functions of the call, and `calls` logs the      *)
(* enricher invocations as records [call, enricher] in the order they are   *)
(* made.                                                                    *)

MaxCalls == 2

ConcurrentCalls == 1..MaxCalls

\* the frame that holds `let event` for a call sharing one field of the instance
Frame_InstanceField(c) == 1

\* the frame that holds `let event` (lines 84, 98, 112, 129, 137, 146, 154):
\* each invocation of the async function has its own
Frame(c) == c

\* the arguments of the calls: a swap, a transfer, a fee-only transaction and
\* a failed one
ConcurrentInputs ==
  { [atomicEvents |-> <<Spl("DEBIT_SPL", "A", "M1", 1000, "ta_A_M1"),
                        Spl("CREDIT_SPL", "A", "M2", 2000, "ta_A_M2")>>,
     tx |-> Tx(JsonNull, ShortKeys, <<JupiterRouteIx>>)],
    [atomicEvents |-> <<Spl("DEBIT_SPL", "A", "M1", 1000, "ta_A_M1"),
                        Spl("CREDIT_SPL", "B", "M1", 1000, "ta_B_M1")>>,
     tx |-> Tx(JsonNull, ShortKeys, <<>>)],
    [atomicEvents |-> <<Sol("DEBIT_SOL", "A", TransactionFee)>>,
     tx |-> Tx(JsonNull, ShortKeys, <<JupiterRouteIx>>)],
    [atomicEvents |-> <<>>,
     tx |-> Tx(ErrObject, ShortKeys, <<>>)] }

ConcurrentEnricherLists ==
  { <<"jupiter">>, <<"jupiter", "pluginX">>, <<"pluginX", "throws">> }

InitConcurrent ==
  /\ config = DefaultConfig
  /\ enrichers \in ConcurrentEnricherLists
  /\ env = [production |-> FALSE]
  /\ \E inputs \in [ConcurrentCalls -> ConcurrentInputs] :
       /\ atomicEvents = [c \in ConcurrentCalls |-> inputs[c].atomicEvents]
       /\ tx = [c \in ConcurrentCalls |-> inputs[c].tx]
  /\ pc = [c \in ConcurrentCalls |-> "start"]
  /\ event = [c \in ConcurrentCalls |-> None]
  /\ idx = [c \in ConcurrentCalls |-> 0]
  /\ inflight = [c \in ConcurrentCalls |-> 0]
  /\ calls = <<>>
  /\ result = [c \in ConcurrentCalls |-> None]
  /\ Idle

\* a call runs lines 83-162 up to its first await
ConcurrentClassifyStep ==
  \E c \in ConcurrentCalls :
    /\ pc[c] = "start"
    /\ event' = [event EXCEPT
                   ![Frame(c)] = Some(Classify(config, atomicEvents[c], tx[c]))]
    /\ pc' = [pc EXCEPT ![c] = "loop"]
    /\ UNCHANGED <<config, enrichers, env, atomicEvents, tx, idx, inflight,
                   calls, result, args, ret>>

\* a call invokes its next enricher and suspends at the await
ConcurrentInvokeEnricher ==
  \E c \in ConcurrentCalls :
    /\ pc[c] = "loop"
    /\ inflight[c] = 0
    /\ idx[c] < Len(enrichers)
    /\ inflight' = [inflight EXCEPT ![c] = idx[c] + 1]
    /\ calls' = Append(calls, [call |-> c, enricher |-> idx[c] + 1])
    /\ UNCHANGED <<config, enrichers, env, atomicEvents, tx, pc, event, idx,
                   result, args, ret>>

\* the promise a call awaits resolves and the call resumes
ConcurrentEnricherResolves ==
  \E c \in ConcurrentCalls :
    /\ pc[c] = "loop"
    /\ inflight[c] # 0
    /\ LET out == Enrich(enrichers[inflight[c]], event[Frame(c)][1], tx[c], env)
       IN /\ out.ok
          /\ event' = [event EXCEPT ![Frame(c)] = Some(out.event)]
    /\ idx' = [idx EXCEPT ![c] = inflight[c]]
    /\ inflight' = [inflight EXCEPT ![c] = 0]
    /\ UNCHANGED <<config, enrichers, env, atomicEvents, tx, pc, calls, result,
                   args, ret>>

\* the promise a call awaits rejects and the call rejects
ConcurrentEnricherRejects ==
  \E c \in ConcurrentCalls :
    /\ pc[c] = "loop"
    /\ inflight[c] # 0
    /\ ~Enrich(enrichers[inflight[c]], event[Frame(c)][1], tx[c], env).ok
    /\ pc' = [pc EXCEPT ![c] = "rejected"]
    /\ inflight' = [inflight EXCEPT ![c] = 0]
    /\ UNCHANGED <<config, enrichers, env, atomicEvents, tx, event, idx, calls,
                   result, args, ret>>

\* a call returns its event
ConcurrentReturn ==
  \E c \in ConcurrentCalls :
    /\ pc[c] = "loop"
    /\ inflight[c] = 0
    /\ idx[c] = Len(enrichers)
    /\ result' = [result EXCEPT ![c] = event[Frame(c)]]
    /\ pc' = [pc EXCEPT ![c] = "returned"]
    /\ UNCHANGED <<config, enrichers, env, atomicEvents, tx, event, idx,
                   inflight, calls, args, ret>>

NextConcurrent ==
  \/ ConcurrentClassifyStep
  \/ ConcurrentInvokeEnricher
  \/ ConcurrentEnricherResolves
  \/ ConcurrentEnricherRejects
  \/ ConcurrentReturn

SpecConcurrent == InitConcurrent /\ [][NextConcurrent]_vars

RECURSIVE EnrichFrom(_, _, _, _, _)
\* the enricher loop run without interruption from plugin k on
EnrichFrom(plugins, k, ev, t, e) ==
  IF k > Len(plugins) THEN Resolved(ev)
  ELSE CHOOSE r \in {IF out.ok THEN EnrichFrom(plugins, k + 1, out.event, t, e)
                     ELSE Rejected : out \in {Enrich(plugins[k], ev, t, e)}} : TRUE

\* the outcome of call c when it is the only call on the aggregator
RunAlone(c) ==
  CHOOSE r \in UNION {{EnrichFrom(enrichers, 1, classified, t, env) :
                         classified \in {Classify(config, events, t)}} :
                       events \in {atomicEvents[c]}, t \in {tx[c]}} : TRUE

\* C21: aggregate keeps no shared mutable state across calls: however two
\* calls on one aggregator are interleaved at the enricher awaits, each call
\* returns the event it returns when run alone (and rejects when it rejects
\* alone), calls with identical inputs return equal events, and no step
\* writes the configuration or the enricher list.
C21_CallsAreIsolated ==
  /\ [](\A c \in ConcurrentCalls :
          /\ pc[c] = "returned"
               => /\ RunAlone(c).ok
                  /\ result[c] = Some(RunAlone(c).event)
          /\ pc[c] = "rejected" => ~RunAlone(c).ok
          /\ \A d \in ConcurrentCalls :
               (/\ pc[c] = "returned" /\ pc[d] = "returned"
                /\ atomicEvents[c] = atomicEvents[d] /\ tx[c] = tx[d])
                 => result[c] = result[d])
  /\ [][config' = config /\ enrichers' = enrichers]_vars

\* two calls with different inputs have returned different events after call
\* 2 ran between two enricher invocations of call 1
C21_Witness ==
  /\ pc[1] = "returned"
  /\ pc[2] = "returned"
  /\ atomicEvents[1] # atomicEvents[2]
  /\ result[1][1].type = "SWAP"
  /\ result[2][1].type = "TRANSFER"
  /\ \E i, j, k \in 1..Len(calls) :
       /\ i < j /\ j < k
       /\ calls[i].call = 1 /\ calls[j].call = 2 /\ calls[k].call = 1

----------------------------------------------------------------------------
(* Claims about the events attached to the result *)

\* out lists distinct positions of events, each element as it stands there
TracesBack(out, events) ==
  \E f \in [1..Len(out) -> 1..Len(events)] :
    /\ \A k, l \in 1..Len(out) : k # l => f[k] # f[l]
    /\ \A k \in 1..Len(out) : out[k] = events[f[k]]

\* ev attaches the credit at position i and the debit at position j of the
\* filtered events, the pair its swapper or its sender and receiver name
AttachesPair(ev, i, j) ==
  /\ i # j
  /\ ev.atomicEvents = <<Filtered[i], Filtered[j]>>
  /\ IsCredit(Filtered[i])
  /\ IsDebit(Filtered[j])
  /\ ev.type = "SWAP"
       => /\ Filtered[i].account = ev.swapper
          /\ Filtered[j].account = ev.swapper
          /\ AssetOf(Filtered[i]) = ev.tokenOut.mint
          /\ AssetOf(Filtered[j]) = ev.tokenIn.mint
  /\ ev.type = "TRANSFER"
       => /\ Filtered[i].account = ev.receiver
          /\ Filtered[j].account = ev.sender
          /\ AssetOf(Filtered[i]) = ev.token.mint
          /\ AssetOf(Filtered[j]) = ev.token.mint

\* C22: in every semantic event aggregate builds, each element of atomicEvents
\* is one of the atomic events passed in, unaltered and not duplicated: SWAP
\* and TRANSFER carry exactly the two events of the selected pair, COMPLEX_
\* TRANSACTION all events that survived fee filtering, TRANSACTION_FAILED and
\* UNKNOWN_TRANSACTION the whole original list; signature and timestamp are
\* the transaction's signature and blockTime.
C22_AtomicEventsTraceBack ==
  Classified
    => LET ev == event[1]
       IN /\ ev.type \in SemanticEventTypes
          /\ ev.signature = tx.signature
          /\ ev.timestamp = tx.blockTime
          /\ TracesBack(ev.atomicEvents, atomicEvents)
          /\ ev.type \in {"SWAP", "TRANSFER"}
               => \E i, j \in 1..Len(Filtered) : AttachesPair(ev, i, j)
          /\ ev.type = "COMPLEX_TRANSACTION" => ev.atomicEvents = Filtered
          /\ ev.type \in {"TRANSACTION_FAILED", "UNKNOWN_TRANSACTION"}
               => ev.atomicEvents = atomicEvents

\* four input events of which the fee debit is filtered out and a native
\* credit stays unused: the enriched SWAP returned attaches the two events
\* of its pair, credit first, and neither the filtered nor the whole list
C22_Witness ==
  /\ pc = "returned"
  /\ Len(calls) = 1
  /\ result[1].type = "SWAP"
  /\ Len(atomicEvents) = 4
  /\ Len(Filtered) = 3
  /\ \E i, j \in 1..3 :
       /\ i > j
       /\ result[1].atomicEvents = <<Filtered[i], Filtered[j]>>
  /\ HasJupiterMetadata(result[1])

----------------------------------------------------------------------------
(* Claims about fee filtering and escalation in aggregate *)

\* positions of the native debits whose amount equals meta.fee
FeeDebits ==
  {i \in 1..Len(atomicEvents) :
     /\ atomicEvents[i].type = "DEBIT_SOL"
     /\ BigInt(atomicEvents[i].amount) = tx.meta.fee}

\* the event aggregate builds when no atomic event is filtered out
UnfilteredOutcome ==
  CHOOSE ev \in {Classify(cfg, atomicEvents, tx) :
                   cfg \in {[config EXCEPT !.includeFeeEvents = TRUE]}} : TRUE

\* C23: with includeFeeEvents false the fee filter of aggregate removes a
\* native debit equal to meta.fee only when exactly one atomic event
\* qualifies; when two or more native debits equal meta.fee all of them are
\* kept and take part in swap, transfer and complex detection, so the event
\* is the one built from the unfiltered list.
C23_AmbiguousFeeDebitsKept ==
  (/\ Classified
   /\ ~TransactionFailed(tx)
   /\ ~config.includeFeeEvents
   /\ Cardinality(FeeDebits) >= 2)
    => /\ Filtered = atomicEvents
       /\ event[1].type = UnfilteredOutcome.type
       /\ event[1].atomicEvents = UnfilteredOutcome.atomicEvents

----------------------------------------------------------------------------
(* aggregate on transactions with several candidate pairs                   *)

MaxPatternEvents == 4

\* atomic events of two accounts trading two assets: A gives 1000 M1 and
\* receives 2000 M2 while B gives 2000 M2 and receives 1000 M1; a further
\* debit of A in the other asset; a credit of B within the default tolerance
\* of 1000
PatternUniverse ==
  { Spl("DEBIT_SPL", "A", "M1", 1000, "ta_A_M1"),
    Spl("CREDIT_SPL", "A", "M2", 2000, "ta_A_M2"),
    Spl("DEBIT_SPL", "B", "M2", 2000, "ta_B_M2"),
    Spl("CREDIT_SPL", "B", "M1", 1000, "ta_B_M1"),
    Spl("DEBIT_SPL", "A", "M2", 500, "ta_A_M2"),
    Spl("CREDIT_SPL", "B", "M1", 999, "ta_B_M1") }

\* one aggregate call on a successful transaction of up to MaxPatternEvents
\* atomic events
InitPatterns ==
  /\ config \in [amountTolerance : {DefaultTolerance},
                 includeFeeEvents : {FALSE},
                 generateComplexEvents : BOOLEAN]
  /\ enrichers \in {<<"jupiter">>, <<"throws">>}
  /\ env = [production |-> FALSE]
  /\ atomicEvents \in SeqUpTo(PatternUniverse, MaxPatternEvents)
  /\ tx = Tx(JsonNull, ShortKeys, <<JupiterRouteIx>>)
  /\ pc = "start"
  /\ event = None
  /\ idx = 0
  /\ inflight = 0
  /\ calls = <<>>
  /\ result = None
  /\ Idle

SpecPatterns == InitPatterns /\ [][Next]_vars

\* the selected transfer pair, when transfer detection is reached and finds one
SelectedTransfer ==
  IF TransactionFailed(tx) \/ ~IsNone(identifySwapPattern(Filtered)) THEN None
  ELSE identifyTransferPattern(config, Filtered)

\* C24: when a transfer pair is found and generateComplexEvents is true,
\* aggregate returns COMPLEX_TRANSACTION over all filtered events whenever a
\* filtered event other than the two events of the selected pair exists (also
\* one with the type and account of a pair member but another asset or
\* holding account), and TRANSFER only when the filtered events are exactly
\* the two events of the pair.
C24_EscalatesOnAnyOtherEvent ==
  (Classified /\ config.generateComplexEvents /\ ~IsNone(SelectedTransfer))
    => IF Len(Filtered) = 2
       THEN event[1].type = "TRANSFER"
       ELSE /\ event[1].type = "COMPLEX_TRANSACTION"
            /\ event[1].atomicEvents = Filtered

----------------------------------------------------------------------------
(* Claims about the fallback rules of aggregate *)

\* pattern detection ran on a non-empty filtered list of a successful
\* transaction and found neither a swap nor a transfer candidate
NoCandidate ==
  /\ tx.meta.err = JsonNull
  /\ Len(Filtered) > 0
  /\ IsNone(identifySwapPattern(Filtered))
  /\ IsNone(identifyTransferPattern(config, Filtered))

\* C25: when a successful transaction yields neither a swap nor a transfer
\* candidate, aggregate returns COMPLEX_TRANSACTION with all filtered events
\* and no subEvents if more than one filtered event remains and
\* generateComplexEvents is true; otherwise it returns UNKNOWN_TRANSACTION with
\* reason "Could not identify transaction pattern" and unmatchedEventsCount
\* the number of original atomic events.
C25_ComplexOrUnknownFallback ==
  (Classified /\ NoCandidate)
    => IF Len(Filtered) > 1 /\ config.generateComplexEvents
       THEN /\ event[1].type = "COMPLEX_TRANSACTION"
            /\ event[1].atomicEvents = Filtered
            /\ event[1].subEvents = <<>>
       ELSE /\ event[1].type = "UNKNOWN_TRANSACTION"
            /\ event[1].reason = "Could not identify transaction pattern"
            /\ event[1].unmatchedEventsCount = Len(atomicEvents)

\* an unknown event returned for a fee debit and one other movement: one
\* filtered event, two counted
C25_Witness ==
  /\ pc = "returned"
  /\ NoCandidate
  /\ Len(atomicEvents) = 2
  /\ Len(Filtered) = 1
  /\ result[1].type = "UNKNOWN_TRANSACTION"
  /\ result[1].unmatchedEventsCount = 2

----------------------------------------------------------------------------
(* Claims about swap and transfer detection *)

\* positions of the filtered events of an account
MovementsOf(account) ==
  {i \in 1..Len(Filtered) : Filtered[i].account = account}

FilteredAccounts == {Filtered[i].account : i \in 1..Len(Filtered)}

\* the account has a credit and a debit of different assets
HasSwapPair(account) ==
  \E i, j \in MovementsOf(account) :
    /\ IsCredit(Filtered[i])
    /\ IsDebit(Filtered[j])
    /\ AssetOf(Filtered[i]) # AssetOf(Filtered[j])

\* the account's movements are one IN and one OUT, of different assets
QualifyingSwapper(account) ==
  /\ Cardinality(MovementsOf(account)) = 2
  /\ HasSwapPair(account)

\* a debit at position d and a credit at position c of the same asset on
\* different accounts, the amounts within the configured tolerance
MatchingPair(d, c) ==
  /\ IsDebit(Filtered[d])
  /\ IsCredit(Filtered[c])
  /\ AssetOf(Filtered[d]) = AssetOf(Filtered[c])
  /\ Filtered[d].account # Filtered[c].account
  /\ WithinTolerance(config.amountTolerance,
                     BigInt(Filtered[d].amount), BigInt(Filtered[c].amount))

HasMatchingPair == \E d, c \in 1..Len(Filtered) : MatchingPair(d, c)

FirstAppearance(account) ==
  CHOOSE i \in MovementsOf(account) : \A j \in MovementsOf(account) : i <= j

\* C26: swap detection takes precedence over transfer detection: when the
\* filtered events of a successful transaction hold both a qualifying swap
\* (an account with one IN and one OUT of different assets) and a qualifying
\* transfer pair, aggregate returns SWAP, the swapper being the first
\* qualifying account in order of first appearance in the event list.
C26_SwapBeforeTransfer ==
  (/\ Classified
   /\ tx.meta.err = JsonNull
   /\ HasMatchingPair
   /\ \E a \in FilteredAccounts : QualifyingSwapper(a))
    => /\ event[1].type = "SWAP"
       /\ QualifyingSwapper(event[1].swapper)
       /\ \A a \in FilteredAccounts :
            QualifyingSwapper(a)
              => FirstAppearance(event[1].swapper) <= FirstAppearance(a)

\* A gives 1000 M1 and receives 2000 M2 while B gives 2000 M2 and receives
\* 1000 M1, B's movement listed first: SWAP by B
C26_Witness ==
  /\ pc = "returned"
  /\ Len(Filtered) = 4
  /\ QualifyingSwapper(Some("A"))
  /\ QualifyingSwapper(Some("B"))
  /\ \E d, c \in 1..4 : MatchingPair(d, c) /\ Filtered[d].account = Some("A")
  /\ \E d, c \in 1..4 : MatchingPair(d, c) /\ Filtered[d].account = Some("B")
  /\ Filtered[1].account = Some("B")
  /\ result[1].type = "SWAP"
  /\ result[1].swapper = Some("B")

\* C27: aggregate returns SWAP only if the swapper has exactly two movements
\* among the filtered events, one IN and one OUT of different assets; an
\* account with an IN and an OUT of different assets but three or more
\* movements never produces a SWAP, whatever the amounts.
C27_SwapNeedsExactlyTwoMovements ==
  Classified
    => /\ event[1].type = "SWAP" => QualifyingSwapper(event[1].swapper)
       /\ \A a \in FilteredAccounts :
            (HasSwapPair(a) /\ Cardinality(MovementsOf(a)) >= 3)
              => ~(event[1].type = "SWAP" /\ event[1].swapper = a)

\* account A gives M1 and M2 and receives M2, three movements with an IN and
\* an OUT of different assets: the result is not a SWAP
C27_Witness ==
  /\ pc = "returned"
  /\ Len(Filtered) = 3
  /\ HasSwapPair(Some("A"))
  /\ Cardinality(MovementsOf(Some("A"))) = 3
  /\ result[1].type = "COMPLEX_TRANSACTION"

\* C28: the transfer threshold never rejects a matching pair: every
\* OUT/IN pair of one asset on different accounts with amounts within
\* tolerance scores at least 0.85, so whenever no swap is detected on a
\* successful transaction and the filtered events hold such a pair, aggregate
\* returns TRANSFER or COMPLEX_TRANSACTION, never UNKNOWN_TRANSACTION; the
\* confidence recorded on a TRANSFER lies in (0.8, 1.0] and that on a SWAP
\* in (0.7, 1.0].
C28_MatchingPairNeverRejected ==
  Classified
    => /\ \A d, c \in 1..Len(Filtered) :
            MatchingPair(d, c)
              => calculateTransferConfidence(config, Movement(Filtered[c]),
                   Movement(Filtered[d]), extractTokenMovements(Filtered)) >= 85
       /\ (/\ tx.meta.err = JsonNull
           /\ IsNone(identifySwapPattern(Filtered))
           /\ HasMatchingPair)
            => event[1].type \in {"TRANSFER", "COMPLEX_TRANSACTION"}
       /\ event[1].type = "TRANSFER"
            => /\ event[1].metadata.aggregator.confidence > 80
               /\ event[1].metadata.aggregator.confidence <= 100
       /\ event[1].type = "SWAP"
            => /\ event[1].metadata.aggregator.confidence > 70
               /\ event[1].metadata.aggregator.confidence <= 100

\* a TRANSFER selected with the lowest score a matching pair can get: amounts
\* within tolerance but not equal, three movements of the asset
C28_Witness ==
  /\ pc = "returned"
  /\ Len(Filtered) = 3
  /\ \A i \in 1..3 : AssetOf(Filtered[i]) = "M1"
  /\ result[1].type = "TRANSFER"
  /\ result[1].metadata.aggregator.confidence = 85
  /\ result[1].atomicEvents[1].amount # result[1].atomicEvents[2].amount

----------------------------------------------------------------------------
(* aggregate on the same atomic events in another order *)

MaxOrderEvents == 3

\* the events of PatternUniverse and a fee debit
OrderUniverse == PatternUniverse \cup {Sol("DEBIT_SOL", "A", TransactionFee)}

\* one aggregate call on a successful transaction of up to MaxOrderEvents
\* atomic events, fee events filtered
InitOrder ==
  /\ config \in [amountTolerance : {DefaultTolerance},
                 includeFeeEvents : {FALSE},
                 generateComplexEvents : BOOLEAN]
  /\ enrichers \in {<<"jupiter">>, <<"throws">>}
  /\ env = [production |-> FALSE]
  /\ atomicEvents \in SeqUpTo(OrderUniverse, MaxOrderEvents)
  /\ tx = Tx(JsonNull, ShortKeys, <<JupiterRouteIx>>)
  /\ pc = "start"
  /\ event = None
  /\ idx = 0
  /\ inflight = 0
  /\ calls = <<>>
  /\ result = None
  /\ Idle

SpecOrder == InitOrder /\ [][Next]_vars

\* the orders of n events
Orders(n) ==
  {f \in [1..n -> 1..n] : \A i, j \in 1..n : i # j => f[i] # f[j]}

Reordered(events, f) == [i \in 1..Len(events) |-> events[f[i]]]

\* what aggregate builds from each order of the atomic events of the call
OutcomesOfAllOrders ==
  {Classify(config, events, tx) :
     events \in {Reordered(atomicEvents, f) : f \in Orders(Len(atomicEvents))}}

\* C29: the variant returned by aggregate does not depend on the order of the
\* atomic events: for every transaction and configuration, every order of
\* the same atomic events gives a result of the same type as the one
\* returned.
C29_TypeIgnoresOrder ==
  pc = "returned"
    => \A other \in OutcomesOfAllOrders : other.type = result[1].type

\* a TRANSFER returned for three events of which another order attaches
\* another pair
C29_Witness ==
  /\ pc = "returned"
  /\ Len(atomicEvents) = 3
  /\ result[1].type = "TRANSFER"
  /\ \E other \in OutcomesOfAllOrders :
       /\ other.type = "TRANSFER"
       /\ other.atomicEvents # result[1].atomicEvents

----------------------------------------------------------------------------
(* analyze on token amounts that are not in canonical form *)

\* token-balance records whose amount strings carry leading zeros: "100",
\* "0100" and "250" on one holding account, "0" and "00" on another
AmountFormUniverse ==
  { TokenBalance(2, "A", "M1", <<1, 0, 0>>),
    TokenBalance(2, "A", "M1", <<0, 1, 0, 0>>),
    TokenBalance(2, "A", "M1", <<2, 5, 0>>),
    TokenBalance(3, "A", "M2", <<0>>),
    TokenBalance(3, "A", "M2", <<0, 0>>) }

\* analyze with the default configuration on transactions that vary in the
\* form of their token amounts
InitAmountForms ==
  /\ config = DefaultAnalyzerConfig
  /\ \E preTokenBalances \in SeqUpTo(AmountFormUniverse, MaxTokenBalances) :
       \E postTokenBalances \in SeqUpTo(AmountFormUniverse, MaxTokenBalances) :
         tx = RawTx(JsonNull, TransactionFee, AnalyzerKeys, <<>>,
                    <<10000, 0, 0>>, <<0, 5000, 5000>>,
                    preTokenBalances, postTokenBalances)
  /\ pc = "analyze"
  /\ IdleAnalyzer

SpecAmountForms == InitAmountForms /\ [][NextAnalyze]_vars

\* the integer a token-balance record denotes, none standing for zero
AmountValue(balance) ==
  IF IsNone(balance) THEN <<0>> ELSE StripZeros(balance[1].uiTokenAmount.amount)

\* C30: analyze never emits an atomic event with amount zero: for every
\* transaction whose token amounts are decimal strings of non-negative
\* integers, canonical or not ("0100" for "100", "00"), every emitted event
\* has an amount denoting an integer greater than 0, a CREDIT being emitted
\* exactly when the balance rose and a DEBIT exactly when it fell.
C30_NoZeroAmountEvent ==
  Analyzed
    => \A k \in 1..Len(ret[1]) :
         LET e == ret[1][k]
         IN /\ \A d \in 1..Len(e.amount) : e.amount[d] \in 0..9
            /\ StripZeros(e.amount) # <<0>>
            /\ IsSol(e)
                 => /\ IsCredit(e) <=> NativeChange(IndexOfKey(e.account)) > 0
                    /\ IsDebit(e) <=> NativeChange(IndexOfKey(e.account)) < 0
            /\ IsSpl(e)
                 => LET i == IndexOfKey(e.tokenAccount)
                        before == AmountValue(PreAt(i))
                        after == AmountValue(PostAt(i))
                    IN /\ IsCredit(e) <=> BigLess(before, after)
                       /\ IsDebit(e) <=> BigLess(after, before)

====
